---------------------------- MODULE Spec2Model ----------------------------
(***************************************************************************)
(* Harvy: PSBT construction for buying underwater ordinals.                *)
(*                                                                         *)
(* The model follows src/psbt-utils.js (selectUTXOs, the two builders,     *)
(* broadcastPSBT) and the three POST handlers of src/server.js.            *)
(* Amounts are satoshis.  Input indices are 0-based as in the code; a      *)
(* TLA+ sequence is 1-based, so input index i is element i + 1.            *)
(***************************************************************************)
EXTENDS Integers, Sequences, FiniteSets, TLC

(***************************************************************************)
(* Bounds of the model.                                                    *)
(***************************************************************************)
MaxSelLen == 3      \* candidate UTXOs handed to the selector
MaxSelValue == 3    \* largest candidate value in the selector runs
MaxSelTarget == 4   \* largest targetSats in the selector runs
MaxSelFee == 2      \* largest feeEstimate in the selector runs

MaxWalletLen == 3   \* UTXOs in the operator's wallet
MaxFailAt == 3      \* the UTXO-source call that may fail is one of the first MaxFailAt
MaxBatch == 2       \* ordinals in a batch request
MaxForgedOutputs == 2   \* outputs of a PSBT of the seller's own making
MaxSubmissions == 2     \* transactions POSTed to the network in one behaviour
MaxCalcOffset == 1      \* tax savings are tried this many 1/10000 USD around each tier edge
MaxCalcSats == 12       \* largest amount in sats converted to USD and back
MaxFinalizes == 3       \* finalize requests served in one behaviour of the swaps' lifecycle
MaxRequests == 5        \* requests handed to a request queue in one behaviour

(***************************************************************************)
(* Program constants.                                                      *)
(***************************************************************************)
MIN_OFFER_SATS == 600             \* if (offerSats < 600) throw
SINGLE_FEE_ESTIMATE == 1500       \* selectUTXOs(harvyUTXOs, offerSats, 1500)
CHANGE_DUST_SATS == 546           \* if (harvyChange > 546)
MAX_PURCHASE_SATS == 100000000    \* purchasePriceSats > 100000000
MAX_BTC_PRICE_USD == 10000000     \* btcPriceUSD > 10000000
MAX_LOSS_SATS == 100000000        \* const MAX_LOSS_SATS = 100000000
DEFAULT_TAX_RATE_PCT == 30        \* process.env.ASSUMED_TAX_RATE || 0.30
DEFAULT_MAX_SERVICE_FEE_USD == 100  \* process.env.MAX_SERVICE_FEE_USD || 100
DEFAULT_MIN_PAYMENT_SATS == 600   \* process.env.MIN_ORDINAL_PAYMENT_SATS || 600
SATS_PER_BTC == 100000000         \* btc * 100000000
MAX_BATCH == 20                   \* if (ordinals.length > 20)
BATCH_OVERHEAD_VBYTES == 10       \* estimatedVsize = 10 + ...
BATCH_INPUT_VBYTES == 180         \* 180 * (1 + inscriptionUTXOs.length)
BATCH_OUTPUT_VBYTES == 34         \* 34 * (2 + inscriptionUTXOs.length)
BATCH_FEE_RATE == 5               \* const feeRate = 5
MAX_TOTAL_OUTPUT_SATS == 1000000000   \* const MAX_TOTAL_OUTPUT_SATS = 1000000000
MAX_CONCURRENT_SHARED == 1  \* MAX_CONCURRENT of the shared apiQueue
MAX_CONCURRENT_HOOK == 3    \* MAX_CONCURRENT of the hook-local queue and of the documented one

VARIABLES
    calcArgs,   \* the arguments of the calculator call under test
    calcResult, \* what the calculator returned for them
    selArgs,    \* the arguments of the selectUTXOs call under test
    selResult,  \* what the call returned or threw ("pending" before it ran)
    utxoSet,    \* the UTXO Source: address -> its unspent outputs, in API order
    env,        \* process.env as the handlers read it
    req,        \* the request being served: [route, body, failAt]
    resp,       \* the response sent for it ("pending" before the handler ran)
    held,       \* the PSBT in the seller's hands
    finReq,     \* the psbtBase64 of the last POST /api/finalize-psbt
    finResp,    \* the response to it
    submitted,  \* the raw transactions POSTed to the network, in order
    spent,      \* the outputs spent by the transactions the network accepted
    jobs,       \* the swaps in progress: each one's build position, request and PSBT
    finLog,     \* the finalize requests served, in order: [job, kind, posted]
    maxConcurrent,  \* MAX_CONCURRENT of the request queue that is running
    requestQueue,   \* the request functions waiting in the queue, oldest first
    activeRequests, \* the queue's count of requests in flight
    inFlight,       \* the requests started and not yet settled
    timers,         \* the setTimeout(processQueue, DELAY_BETWEEN_REQUESTS) callbacks pending
    enqueued,       \* how many requests have been enqueued so far (they are numbered 1, 2, ...)
    startLog        \* the requests started, in order, each with the timers pending at its start

calcVars == <<calcArgs, calcResult>>
selVars == <<selArgs, selResult>>
buildVars == <<utxoSet, env, req, resp>>
finVars == <<held, finReq, finResp, submitted, spent>>
lifeVars == <<jobs, finLog>>
queueVars == <<maxConcurrent, requestQueue, activeRequests, inFlight, timers, enqueued, startLog>>
vars == <<calcArgs, calcResult, selArgs, selResult, utxoSet, env, req, resp,
          held, finReq, finResp, submitted, spent, jobs, finLog,
          maxConcurrent, requestQueue, activeRequests, inFlight, timers, enqueued, startLog>>

(***************************************************************************)
(* Array helpers.                                                          *)
(***************************************************************************)
RECURSIVE SumValues(_)
\* utxos.reduce((sum, u) => sum + u.value, 0)
SumValues(utxos) ==
    IF utxos = <<>> THEN 0
    ELSE Head(utxos).value + SumValues(Tail(utxos))

RECURSIVE InsertByValue(_, _)
\* place u after every element whose value is <= u.value (a stable sort)
InsertByValue(sorted, u) ==
    IF sorted = <<>> THEN <<u>>
    ELSE IF Head(sorted).value <= u.value
         THEN <<Head(sorted)>> \o InsertByValue(Tail(sorted), u)
         ELSE <<u>> \o sorted

\* mutant: the candidates are taken in the order given
SortAscending_AsGiven(utxos) == utxos

RECURSIVE SortAscending(_)
\* [...utxos].sort((a, b) => a.value - b.value)
SortAscending(utxos) ==
    IF utxos = <<>> THEN <<>>
    ELSE InsertByValue(SortAscending(SubSeq(utxos, 1, Len(utxos) - 1)),
                       utxos[Len(utxos)])

(***************************************************************************)
(* selectUTXOs: smallest first, stop once total >= needed.                 *)
(***************************************************************************)
RECURSIVE SelectLoop(_, _, _, _)
\* for (const utxo of sorted) { selected.push(utxo); total += utxo.value;
\*                              if (total >= needed) break; }
SelectLoop(sorted, selected, total, needed) ==
    IF sorted = <<>> THEN [selected |-> selected, total |-> total]
    ELSE LET sel == Append(selected, Head(sorted))
             tot == total + Head(sorted).value
         IN  IF tot >= needed
             THEN [selected |-> sel, total |-> tot]
             ELSE SelectLoop(Tail(sorted), sel, tot, needed)

\* mutant: the change forgets the fee estimate
selectUTXOs_ChangeIgnoresFee(utxos, targetSats, feeEstimate) ==
    LET sorted == SortAscending(utxos)
        needed == targetSats + feeEstimate
        acc    == SelectLoop(sorted, <<>>, 0, needed)
    IN  IF acc.total < needed
        THEN [ok |-> FALSE, error |-> "InsufficientFunds",
              selected |-> <<>>, total |-> 0, change |-> 0]
        ELSE [ok |-> TRUE, error |-> "none",
              selected |-> acc.selected, total |-> acc.total,
              change |-> acc.total - targetSats]

\* mutant: the amount needed forgets the fee estimate
selectUTXOs_NeededIgnoresFee(utxos, targetSats, feeEstimate) ==
    LET sorted == SortAscending(utxos)
        needed == targetSats
        acc    == SelectLoop(sorted, <<>>, 0, needed)
    IN  IF acc.total < needed
        THEN [ok |-> FALSE, error |-> "InsufficientFunds",
              selected |-> <<>>, total |-> 0, change |-> 0]
        ELSE [ok |-> TRUE, error |-> "none",
              selected |-> acc.selected, total |-> acc.total,
              change |-> acc.total - targetSats - feeEstimate]

selectUTXOs(utxos, targetSats, feeEstimate) ==
    LET sorted == SortAscending(utxos)
        needed == targetSats + feeEstimate
        acc    == SelectLoop(sorted, <<>>, 0, needed)
    IN  IF acc.total < needed
        THEN [ok |-> FALSE, error |-> "InsufficientFunds",
              selected |-> <<>>, total |-> 0, change |-> 0]
        ELSE [ok |-> TRUE, error |-> "none",
              selected |-> acc.selected, total |-> acc.total,
              change |-> acc.total - targetSats - feeEstimate]

(***************************************************************************)
(* Price/fee calculator.  A USD amount rounded to 2 decimals is an integer *)
(* number of cents; the unrounded taxSavingsUSD = taxLossUSD * taxRate is  *)
(* an integer number of 1/10000 USD (cents times a rate in percent).       *)
(* The arithmetic is exact: Math.round(x) is floor(x + 1/2).               *)
(***************************************************************************)
\* NaN, what parseFloat makes of text that is no number: a value apart from
\* every number the program computes with
NaN == -2000000000

IsNaN(x) == x = NaN

\* x * y in floating point: NaN when either factor is
Times(x, y) == IF IsNaN(x) \/ IsNaN(y) THEN NaN ELSE x * y

\* x <= y, x < y and x > y in floating point: false when x is NaN (y is a number)
Leq(x, y) == ~IsNaN(x) /\ x <= y
Lt(x, y) == ~IsNaN(x) /\ x < y
Gt(x, y) == ~IsNaN(x) /\ x > y

RECURSIVE GCD(_, _)
GCD(a, b) == IF b = 0 THEN a ELSE GCD(b, a % b)

\* Math.round(n / d) for d > 0
RoundDiv(n, d) == (2 * n + d) \div (2 * d)

\* Math.round(a * b / c) for b, c > 0, kept inside the integer range
MulDivRound(a, b, c) ==
    IF IsNaN(a) THEN NaN ELSE
    LET g  == GCD(b, c)
        bb == b \div g
        cc == c \div g
        q  == a \div cc
        r  == a % cc
    IN  q * bb + RoundDiv(r * bb, cc)

\* mutant: the USD amount is cut to cents instead of rounded
satsToUSD_Floor(sats, btcPriceUSD) ==
    (sats * btcPriceUSD) \div (SATS_PER_BTC \div 100)

\* satsToUSD: Math.round(sats / 100000000 * btcPriceUSD * 100) / 100, in cents
satsToUSD(sats, btcPriceUSD) ==
    MulDivRound(sats, btcPriceUSD, SATS_PER_BTC \div 100)

\* usdToSats: Math.round(usd / btcPriceUSD * 100000000), usd given in cents
usdToSats(usdCents, btcPriceUSD) ==
    MulDivRound(usdCents, SATS_PER_BTC \div 100, btcPriceUSD)

\* mutant: the percents of tiers 2 and 3 exchanged
FeeTiers_PercentsSwapped ==
    << [max |-> 100, percent |-> 5], [max |-> 500, percent |-> 10],
       [max |-> 2000, percent |-> 7], [max |-> 10000, percent |-> 12],
       [max |-> -1, percent |-> 15] >>

\* the default tier table: max in USD, percent
FeeTiers ==
    << [max |-> 100, percent |-> 5], [max |-> 500, percent |-> 7],
       [max |-> 2000, percent |-> 10], [max |-> 10000, percent |-> 12],
       [max |-> -1, percent |-> 15] >>       \* max -1 stands for Infinity

RECURSIVE TierLoop(_, _)
\* for (i = 0; i < tiers.length; i++) if (taxSavingsUSD <= tiers[i].max) return ...
TierLoop(taxSavingsE4, i) ==
    IF i > Len(FeeTiers)
    THEN [feeCents |-> MulDivRound(taxSavingsE4, 10, 10000),
          feePercent |-> 10, tier |-> 3]
    ELSE IF IF FeeTiers[i].max = -1 THEN ~IsNaN(taxSavingsE4)
            ELSE Leq(taxSavingsE4, FeeTiers[i].max * 10000)
         THEN [feeCents |-> MulDivRound(taxSavingsE4, FeeTiers[i].percent, 10000),
               feePercent |-> FeeTiers[i].percent, tier |-> i]
         ELSE TierLoop(taxSavingsE4, i + 1)

calculateServiceFee(taxSavingsE4) == TierLoop(taxSavingsE4, 1)

(***************************************************************************)
(* The PSBT as bitcoinjs-lib keeps it: ordered inputs, ordered outputs and *)
(* one signature slot per input ("none" when the input is unsigned).       *)
(* An input carries the previous output it spends: coordinates, value and  *)
(* the script owner that its nonWitnessUtxo transaction reveals.           *)
(***************************************************************************)
NoUTXO == [txid |-> "none", vout |-> 0, value |-> 0, owner |-> "none"]

EmptyPsbt == [inputs |-> <<>>, outputs |-> <<>>, sigs |-> <<>>]

\* psbt.inputCount
InputCount(psbt) == Len(psbt.inputs)

\* addInput throws "Duplicate input detected" for a repeated (hash, index)
HasInput(psbt, u) ==
    \E j \in 1..Len(psbt.inputs) :
        psbt.inputs[j].txid = u.txid /\ psbt.inputs[j].vout = u.vout

addInput(psbt, u) ==
    [psbt EXCEPT !.inputs = Append(@, u), !.sigs = Append(@, "none")]

addOutput(psbt, address, value) ==
    [psbt EXCEPT !.outputs = Append(@, [address |-> address, value |-> value])]

\* signInput(i, keyPair) throws unless the key controls the input's script
CanSign(psbt, i, keyOwner) == psbt.inputs[i + 1].owner = keyOwner

signInput(psbt, i, keyOwner) == [psbt EXCEPT !.sigs[i + 1] = keyOwner]

\* validateSignaturesOfInput(i, () => true): the validator accepts whatever
\* partial signature is there, so only an input with no signature fails
validateSignaturesOfInput(psbt, i) == psbt.sigs[i + 1] # "none"

SumOutputs(psbt) == SumValues(psbt.outputs)

(***************************************************************************)
(* The UTXO Source (Mempool API).  A call is counted; the call numbered    *)
(* failAt fails (a network error or a non-ok response), 0 meaning none.    *)
(***************************************************************************)
Addresses == {"harvy", "seller", "other"}

\* fetchUTXOs(address): [err, calls, utxos]
fetchUTXOs(address, w, calls) ==
    IF calls + 1 = w.failAt
    THEN [err |-> "FetchFailed", calls |-> calls + 1, utxos |-> <<>>]
    ELSE [err |-> "none", calls |-> calls + 1, utxos |-> w.utxoSet[address]]

\* the previous output at (txid, vout), as the raw transaction holds it
ChainOutputs(w, txid, vout) ==
    { u \in UNION { { w.utxoSet[a][j] : j \in 1..Len(w.utxoSet[a]) } : a \in Addresses } :
        u.txid = txid /\ u.vout = vout }

\* fetchTransactionHex(txid) followed by psbt.addInput(...): [err, calls, psbt]
FetchAndAddInput(st, ref, w) ==
    IF st.err # "none" THEN st
    ELSE IF st.calls + 1 = w.failAt \/ ChainOutputs(w, ref.txid, ref.vout) = {}
    THEN [st EXCEPT !.err = "FetchFailed", !.calls = @ + 1]
    ELSE IF HasInput(st.psbt, ref)
    THEN [st EXCEPT !.err = "DuplicateInput", !.calls = @ + 1]
    ELSE [st EXCEPT !.calls = @ + 1,
                    !.psbt = addInput(@, CHOOSE u \in ChainOutputs(w, ref.txid, ref.vout) : TRUE)]

RECURSIVE AddInputs(_, _, _)
\* for (const utxo of list) { txHex = await fetchTransactionHex(utxo.txid); psbt.addInput(...) }
AddInputs(st, list, w) ==
    IF list = <<>> THEN st
    ELSE AddInputs(FetchAndAddInput(st, Head(list), w), Tail(list), w)

\* findInscriptionUTXO(address, inscriptionId): <txid>i<vout> is the pair <<txid, vout>>
findInscriptionUTXO(address, inscriptionId, w, calls) ==
    IF Len(inscriptionId) # 2
    THEN [err |-> "InvalidInscriptionId", calls |-> calls, utxo |-> NoUTXO]
    ELSE LET got == fetchUTXOs(address, w, calls)
             hit == SelectSeq(got.utxos,
                              LAMBDA u : u.txid = inscriptionId[1] /\ u.vout = inscriptionId[2])
         IN  IF got.err # "none"
             THEN [err |-> got.err, calls |-> got.calls, utxo |-> NoUTXO]
             ELSE IF hit = <<>>
             THEN [err |-> "none", calls |-> got.calls, utxo |-> NoUTXO]   \* null
             ELSE [err |-> "none", calls |-> got.calls, utxo |-> hit[1]]

(***************************************************************************)
(* The operator's signing pass, shared by both builders.                   *)
(***************************************************************************)
\* mutant: the loops stop one input early
HarvySignIndices_StopEarly(harvySelected) == 0 .. (Len(harvySelected) - 2)

\* for (let i = 0; i < harvySelected.length; i++)
HarvySignIndices(harvySelected) == 0 .. (Len(harvySelected) - 1)

\* loadHarvyKeyPair(): the owner the key stands for, or a throw
KeyOwner(privateKey) ==
    CASE privateKey = "match" -> "harvy"
      [] privateKey = "mismatch" -> "stranger"
      [] OTHER -> "none"

RECURSIVE SignAll(_, _, _)
SignAll(psbt, indices, keyOwner) ==
    IF indices = {} THEN psbt
    ELSE LET i == CHOOSE x \in indices : \A y \in indices : x <= y
         IN  SignAll(signInput(psbt, i, keyOwner), indices \ {i}, keyOwner)

\* sign the operator's inputs, then validate them: [err, psbt]
SignAndValidate(psbt, harvySelected, privateKey) ==
    LET idx == HarvySignIndices(harvySelected)
        signed == SignAll(psbt, idx, KeyOwner(privateKey))
    IN  IF privateKey \in {"unset", "invalid"}
        THEN [err |-> "KeyLoadFailed", psbt |-> psbt]
        ELSE IF \E i \in idx : ~CanSign(psbt, i, KeyOwner(privateKey))
        THEN [err |-> "SignFailed", psbt |-> psbt]
        ELSE IF \E i \in idx : ~validateSignaturesOfInput(signed, i)
        THEN [err |-> "InvalidSignature", psbt |-> psbt]
        ELSE [err |-> "none", psbt |-> signed]

(***************************************************************************)
(* createOrdinalPurchasePSBT.  The result is what the function returns, or *)
(* the error it throws (ok = FALSE, no PSBT), with the number of           *)
(* UTXO-source calls it made.                                              *)
(***************************************************************************)
NoSingleDetails ==
    [harvyInputCount |-> 0, sellerInputCount |-> 0, inscriptionUTXO |-> NoUTXO,
     outputs |-> [sellerPayment |-> 0, inscriptionValue |-> 0,
                  serviceFee |-> 0, harvyChange |-> 0]]

SingleThrow(error, calls) ==
    [ok |-> FALSE, error |-> error, calls |-> calls,
     psbt |-> EmptyPsbt, details |-> NoSingleDetails]

\* mutant: the service fee is added before the inscription output
SingleOutputs_FeeFirst(psbt, sellerAddress, offerSats, inscriptionUTXO, serviceFeeSats, harvyChange) ==
    LET o1 == addOutput(psbt, sellerAddress, offerSats)
        o2 == IF Gt(serviceFeeSats, 0) THEN addOutput(o1, "harvy", serviceFeeSats) ELSE o1
        o3 == addOutput(o2, "harvy", inscriptionUTXO.value)
        o4 == IF harvyChange > CHANGE_DUST_SATS THEN addOutput(o3, "harvy", harvyChange) ELSE o3
    IN  o4

\* mutant: the change output is never added
SingleOutputs_NoChange(psbt, sellerAddress, offerSats, inscriptionUTXO, serviceFeeSats, harvyChange) ==
    LET o1 == addOutput(psbt, sellerAddress, offerSats)
        o2 == addOutput(o1, "harvy", inscriptionUTXO.value)
        o3 == IF Gt(serviceFeeSats, 0) THEN addOutput(o2, "harvy", serviceFeeSats) ELSE o2
    IN  o3

\* OUTPUT 1..4 of the single swap, in the order the code adds them
SingleOutputs(psbt, sellerAddress, offerSats, inscriptionUTXO, serviceFeeSats, harvyChange) ==
    LET o1 == addOutput(psbt, sellerAddress, offerSats)
        o2 == addOutput(o1, "harvy", inscriptionUTXO.value)
        o3 == IF Gt(serviceFeeSats, 0) THEN addOutput(o2, "harvy", serviceFeeSats) ELSE o2
        o4 == IF harvyChange > CHANGE_DUST_SATS THEN addOutput(o3, "harvy", harvyChange) ELSE o3
    IN  o4

\* mutant: the seller's payment inputs are added before the inscription input
SingleInputs_PaymentFirst(st, harvySelected, inscriptionUTXO, sellerPaymentUTXOs, w) ==
    AddInputs(AddInputs(AddInputs(st, harvySelected, w), sellerPaymentUTXOs, w),
              <<inscriptionUTXO>>, w)

\* the inputs of the single swap, in the order the code adds them
SingleInputs(st, harvySelected, inscriptionUTXO, sellerPaymentUTXOs, w) ==
    AddInputs(AddInputs(AddInputs(st, harvySelected, w), <<inscriptionUTXO>>, w),
              sellerPaymentUTXOs, w)

createOrdinalPurchasePSBT(params, w) ==
    IF params.offerSats < MIN_OFFER_SATS THEN SingleThrow("BelowDustLimit", 0)
    ELSE IF ~w.env.harvyAddress THEN SingleThrow("NotConfigured", 0)
    ELSE
    LET insc == findInscriptionUTXO(params.sellerAddress, params.inscriptionId, w, 0)
    IN  IF insc.err # "none" THEN SingleThrow(insc.err, insc.calls)
        ELSE IF insc.utxo = NoUTXO THEN SingleThrow("InscriptionNotFound", insc.calls)
        ELSE
    LET harvy == fetchUTXOs("harvy", w, insc.calls)
    IN  IF harvy.err # "none" THEN SingleThrow(harvy.err, harvy.calls)
        ELSE IF Len(harvy.utxos) = 0 THEN SingleThrow("NoUTXOs", harvy.calls)
        ELSE
    LET sel == selectUTXOs(harvy.utxos, params.offerSats, SINGLE_FEE_ESTIMATE)
    IN  IF ~sel.ok THEN SingleThrow(sel.error, harvy.calls)
        ELSE
    LET ins == SingleInputs([err |-> "none", calls |-> harvy.calls, psbt |-> EmptyPsbt],
                            sel.selected, insc.utxo, params.sellerPaymentUTXOs, w)
    IN  IF ins.err # "none" THEN SingleThrow(ins.err, ins.calls)
        ELSE
    LET outs == SingleOutputs(ins.psbt, params.sellerAddress, params.offerSats,
                              insc.utxo, params.serviceFeeSats, sel.change)
        sig  == SignAndValidate(outs, sel.selected, w.env.privateKey)
    IN  IF sig.err # "none" THEN SingleThrow(sig.err, ins.calls)
        ELSE [ok |-> TRUE, error |-> "none", calls |-> ins.calls,
              psbt |-> sig.psbt,
              details |->
                [harvyInputCount |-> Len(sel.selected),
                 sellerInputCount |-> 1 + Len(params.sellerPaymentUTXOs),
                 inscriptionUTXO |-> insc.utxo,
                 outputs |-> [sellerPayment |-> params.offerSats,
                              inscriptionValue |-> insc.utxo.value,
                              serviceFee |-> params.serviceFeeSats,
                              harvyChange |-> sel.change]]]

(***************************************************************************)
(* POST /api/create-psbt-offer.  A missing numeric field reads as 0 (both  *)
(* are falsy and what follows treats them alike); a missing id is <<>>, a  *)
(* missing address is "".  The tax rate is in percent, -1 when the body    *)
(* has none.                                                               *)
(***************************************************************************)
\* TAPROOT_RE.test(sellerAddress)
IsTaproot(address) == address \in {"seller", "other"}

Reject(status, kind, calls) ==
    [status |-> status, kind |-> kind, calls |-> calls, psbt |-> EmptyPsbt]

\* mutant: the fee ceiling is never applied
FeeExceeds_Never(feeCents, maxServiceFeeUSD) == FALSE

\* feeInfo.feeUSD > maxServiceFeeUSD
FeeExceeds(feeCents, maxServiceFeeUSD) == Gt(feeCents, maxServiceFeeUSD * 100)

PostCreatePsbtOffer(body, w) ==
    IF body.inscriptionId = <<>> \/ body.sellerAddress = ""
       \/ body.purchasePriceSats = 0 \/ body.btcPriceUSD = 0
    THEN Reject(400, "MissingFields", 0)
    ELSE IF ~IsTaproot(body.sellerAddress) THEN Reject(400, "InvalidAddress", 0)
    ELSE IF ~w.env.harvyAddress THEN Reject(500, "NotConfigured", 0)
    ELSE IF body.purchasePriceSats <= 0 \/ body.purchasePriceSats > MAX_PURCHASE_SATS
    THEN Reject(400, "InvalidPurchasePrice", 0)
    ELSE IF body.currentPriceSats < 0 THEN Reject(400, "InvalidCurrentPrice", 0)
    ELSE IF body.btcPriceUSD <= 0 \/ body.btcPriceUSD > MAX_BTC_PRICE_USD
    THEN Reject(400, "InvalidBtcPrice", 0)
    ELSE
    LET preliminaryLoss == body.purchasePriceSats - body.currentPriceSats
    IN  IF preliminaryLoss < 0 THEN Reject(400, "InvalidTrade", 0)
        ELSE IF preliminaryLoss > MAX_LOSS_SATS THEN Reject(400, "LimitExceeded", 0)
        ELSE
    LET taxLossUSD == satsToUSD(preliminaryLoss, body.btcPriceUSD)
        taxRate == IF body.userTaxRate # -1 THEN body.userTaxRate ELSE w.env.assumedTaxRate
    IN  IF Lt(taxRate, 0) \/ Gt(taxRate, 100)
        THEN Reject(400, "InvalidTaxRate", 0)
        ELSE
    LET taxSavingsE4 == Times(taxLossUSD, taxRate)
        feeInfo == calculateServiceFee(taxSavingsE4)
        serviceFeeSats == usdToSats(feeInfo.feeCents, body.btcPriceUSD)
        offerSats == w.env.minPayment
    IN  IF FeeExceeds(feeInfo.feeCents, w.env.maxServiceFeeUSD)
        THEN Reject(400, "FeeExceedsLimit", 0)
        ELSE IF w.env.privateKey = "unset" THEN Reject(500, "KeyMissing", 0)
        ELSE
    LET built == createOrdinalPurchasePSBT(
                    [inscriptionId |-> body.inscriptionId,
                     sellerAddress |-> body.sellerAddress,
                     sellerPaymentUTXOs |-> body.sellerPaymentUTXOs,
                     purchasePriceSats |-> body.purchasePriceSats,
                     offerSats |-> offerSats,
                     serviceFeeSats |-> serviceFeeSats,
                     btcPriceUSD |-> body.btcPriceUSD], w)
    IN  IF ~built.ok
        THEN Reject(500, built.error, built.calls)
        ELSE [status |-> 200, kind |-> "ok", calls |-> built.calls,
              psbt |-> built.psbt,
              transaction |-> [offerSats |-> offerSats, serviceFeeSats |-> serviceFeeSats,
                               taxLossSats |-> preliminaryLoss, taxLossUSD |-> taxLossUSD,
                               taxSavingsE4 |-> taxSavingsE4, taxRate |-> taxRate,
                               feeCents |-> feeInfo.feeCents, tier |-> feeInfo.tier,
                               feePercent |-> feeInfo.feePercent],
              details |-> built.details]

(***************************************************************************)
(* createBatchedOrdinalPurchasePSBT.                                       *)
(***************************************************************************)
\* mutant: the batch limit is taken one ordinal too late
TooManyOrdinals_OffByOne(ordinals) == Len(ordinals) > MAX_BATCH + 1

\* ordinals.length > 20
TooManyOrdinals(ordinals) == Len(ordinals) > MAX_BATCH

NoBatchDetails ==
    [harvyInputCount |-> 0, sellerInputCount |-> 0, sellerInputIndices |-> <<>>,
     inscriptionUTXOs |-> <<>>,
     outputs |-> [sellerPayment |-> 0, inscriptionValues |-> <<>>,
                  serviceFee |-> 0, harvyChange |-> 0],
     estimatedFee |-> 0]

BatchThrow(error, calls) ==
    [ok |-> FALSE, error |-> error, calls |-> calls,
     psbt |-> EmptyPsbt, details |-> NoBatchDetails]

RECURSIVE FindAllInscriptions_SkipMissing(_, _, _, _)
\* mutant: an inscription that is not found is left out and the build goes on
FindAllInscriptions_SkipMissing(acc, ordinals, sellerAddress, w) ==
    IF ordinals = <<>> \/ acc.err # "none" THEN acc
    ELSE LET got == findInscriptionUTXO(sellerAddress, Head(ordinals).inscriptionId, w, acc.calls)
         IN  IF got.err # "none"
             THEN [acc EXCEPT !.err = got.err, !.calls = got.calls]
             ELSE IF got.utxo = NoUTXO
             THEN FindAllInscriptions_SkipMissing(
                      [acc EXCEPT !.calls = got.calls], Tail(ordinals), sellerAddress, w)
             ELSE FindAllInscriptions_SkipMissing(
                      [acc EXCEPT !.calls = got.calls, !.utxos = Append(@, got.utxo)],
                      Tail(ordinals), sellerAddress, w)

RECURSIVE FindAllInscriptions(_, _, _, _)
\* for (const ord of ordinals) { utxo = await findInscriptionUTXO(...); if (!utxo) throw; push }
FindAllInscriptions(acc, ordinals, sellerAddress, w) ==
    IF ordinals = <<>> \/ acc.err # "none" THEN acc
    ELSE LET got == findInscriptionUTXO(sellerAddress, Head(ordinals).inscriptionId, w, acc.calls)
         IN  IF got.err # "none"
             THEN [acc EXCEPT !.err = got.err, !.calls = got.calls]
             ELSE IF got.utxo = NoUTXO
             THEN [acc EXCEPT !.err = "InscriptionNotFound", !.calls = got.calls]
             ELSE FindAllInscriptions(
                      [acc EXCEPT !.calls = got.calls, !.utxos = Append(@, got.utxo)],
                      Tail(ordinals), sellerAddress, w)

\* estimatedVsize = 10 + 180 * (1 + n) + 34 * (2 + n); feeRate = 5
EstimatedFee(n) ==
    (BATCH_OVERHEAD_VBYTES + (BATCH_INPUT_VBYTES * (1 + n)) + (BATCH_OUTPUT_VBYTES * (2 + n)))
        * BATCH_FEE_RATE

RECURSIVE AddSellerInputs_IndexAfterAdd(_, _, _)
\* mutant: the index is read after the input was added
AddSellerInputs_IndexAfterAdd(st, list, w) ==
    IF list = <<>> \/ st.err # "none" THEN st
    ELSE LET added == FetchAndAddInput(st, Head(list), w)
         IN  IF added.err # "none" THEN added
             ELSE AddSellerInputs_IndexAfterAdd(
                      [added EXCEPT !.indices = Append(@, InputCount(added.psbt))],
                      Tail(list), w)

RECURSIVE AddSellerInputs(_, _, _)
\* for (const utxo of inscriptionUTXOs) { txHex = await fetch; inputIndex = psbt.inputCount;
\*                                        sellerInputIndices.push(inputIndex); psbt.addInput }
AddSellerInputs(st, list, w) ==
    IF list = <<>> \/ st.err # "none" THEN st
    ELSE LET added == FetchAndAddInput(st, Head(list), w)
         IN  IF added.err # "none" THEN added
             ELSE AddSellerInputs(
                      [added EXCEPT !.indices = Append(@, InputCount(st.psbt))],
                      Tail(list), w)

RECURSIVE AddInscriptionOutputs_Reversed(_, _)
\* mutant: the inscription outputs come out in reverse order
AddInscriptionOutputs_Reversed(psbt, list) ==
    IF list = <<>> THEN psbt
    ELSE AddInscriptionOutputs_Reversed(
             addOutput(psbt, "harvy", list[Len(list)].value), SubSeq(list, 1, Len(list) - 1))

RECURSIVE AddInscriptionOutputs(_, _)
\* for (const utxo of inscriptionUTXOs) psbt.addOutput({ address: harvyAddress, value: utxo.value })
AddInscriptionOutputs(psbt, list) ==
    IF list = <<>> THEN psbt
    ELSE AddInscriptionOutputs(addOutput(psbt, "harvy", Head(list).value), Tail(list))

BatchOutputs(psbt, sellerAddress, totalOfferSats, inscriptionUTXOs, totalServiceFeeSats, harvyChange) ==
    LET o1 == addOutput(psbt, sellerAddress, totalOfferSats)
        o2 == AddInscriptionOutputs(o1, inscriptionUTXOs)
        o3 == IF Gt(totalServiceFeeSats, 0) THEN addOutput(o2, "harvy", totalServiceFeeSats) ELSE o2
        o4 == IF harvyChange > CHANGE_DUST_SATS THEN addOutput(o3, "harvy", harvyChange) ELSE o3
    IN  o4

\* the inputs of the batch swap, in the order the code adds them, with the
\* indices recorded for the seller
BatchInputs(st, harvySelected, inscriptionUTXOs, w) ==
    AddSellerInputs(AddInputs(st, harvySelected, w), inscriptionUTXOs, w)

ValuesOf(utxos) == [j \in 1..Len(utxos) |-> utxos[j].value]

createBatchedOrdinalPurchasePSBT(params, w) ==
    IF Len(params.ordinals) = 0 THEN BatchThrow("NoOrdinals", 0)
    ELSE IF TooManyOrdinals(params.ordinals) THEN BatchThrow("BatchTooLarge", 0)
    ELSE IF ~w.env.harvyAddress THEN BatchThrow("NotConfigured", 0)
    ELSE
    LET found == FindAllInscriptions([err |-> "none", calls |-> 0, utxos |-> <<>>],
                                     params.ordinals, params.sellerAddress, w)
    IN  IF found.err # "none" THEN BatchThrow(found.err, found.calls)
        ELSE
    LET inscriptionUTXOs == found.utxos
        totalInscriptionValue == SumValues(inscriptionUTXOs)
        harvy == fetchUTXOs("harvy", w, found.calls)
    IN  IF harvy.err # "none" THEN BatchThrow(harvy.err, harvy.calls)
        ELSE IF Len(harvy.utxos) = 0 THEN BatchThrow("NoUTXOs", harvy.calls)
        ELSE
    LET estimatedFee == EstimatedFee(Len(inscriptionUTXOs))
        sel == selectUTXOs(harvy.utxos, params.totalOfferSats + totalInscriptionValue,
                           estimatedFee)
    IN  IF ~sel.ok THEN BatchThrow(sel.error, harvy.calls)
        ELSE
    LET ins == BatchInputs([err |-> "none", calls |-> harvy.calls, psbt |-> EmptyPsbt,
                            indices |-> <<>>],
                           sel.selected, inscriptionUTXOs, w)
    IN  IF ins.err # "none" THEN BatchThrow(ins.err, ins.calls)
        ELSE
    LET outs == BatchOutputs(ins.psbt, params.sellerAddress, params.totalOfferSats,
                             inscriptionUTXOs, params.totalServiceFeeSats, sel.change)
        sig  == SignAndValidate(outs, sel.selected, w.env.privateKey)
    IN  IF sig.err # "none" THEN BatchThrow(sig.err, ins.calls)
        ELSE [ok |-> TRUE, error |-> "none", calls |-> ins.calls,
              psbt |-> sig.psbt,
              details |->
                [harvyInputCount |-> Len(sel.selected),
                 sellerInputCount |-> Len(inscriptionUTXOs),
                 sellerInputIndices |-> ins.indices,
                 inscriptionUTXOs |-> inscriptionUTXOs,
                 outputs |-> [sellerPayment |-> params.totalOfferSats,
                              inscriptionValues |-> ValuesOf(inscriptionUTXOs),
                              serviceFee |-> params.totalServiceFeeSats,
                              harvyChange |-> sel.change],
                 estimatedFee |-> estimatedFee]]

(***************************************************************************)
(* POST /api/create-batch-psbt.                                            *)
(***************************************************************************)
\* mutant: only a gain is turned away, a loss of zero goes on
NoLoss_GainOnly(totalLossSats) == totalLossSats < 0

\* totalLossSats <= 0
NoLoss(totalLossSats) == totalLossSats <= 0

RECURSIVE SumOrdinals(_, _)
\* the validation loop over the ordinals: the first bad one rejects
SumOrdinals(acc, ordinals) ==
    IF ordinals = <<>> \/ acc.err # "none" THEN acc
    ELSE LET ord == Head(ordinals)
         IN  IF ord.inscriptionId = <<>> \/ ord.purchasePriceSats = 0
             THEN [acc EXCEPT !.err = "MissingFields"]
             ELSE IF ord.purchasePriceSats <= 0 \/ ord.purchasePriceSats > MAX_PURCHASE_SATS
             THEN [acc EXCEPT !.err = "InvalidPurchasePrice"]
             ELSE SumOrdinals(
                      [acc EXCEPT !.totalPurchaseSats = @ + ord.purchasePriceSats,
                                  !.totalCurrentSats = @ + ord.currentPriceSats],
                      Tail(ordinals))

PostCreateBatchPsbt(body, w) ==
    IF Len(body.ordinals) = 0 THEN Reject(400, "MissingFields", 0)
    ELSE IF TooManyOrdinals(body.ordinals) THEN Reject(400, "BatchTooLarge", 0)
    ELSE IF body.sellerAddress = "" \/ body.btcPriceUSD = 0
    THEN Reject(400, "MissingFields", 0)
    ELSE IF ~IsTaproot(body.sellerAddress) THEN Reject(400, "InvalidAddress", 0)
    ELSE IF ~w.env.harvyAddress \/ w.env.privateKey = "unset"
    THEN Reject(500, "NotConfigured", 0)
    ELSE
    LET tot == SumOrdinals([err |-> "none", totalPurchaseSats |-> 0, totalCurrentSats |-> 0],
                           body.ordinals)
    IN  IF tot.err # "none" THEN Reject(400, tot.err, 0)
        ELSE
    LET totalLossSats == tot.totalPurchaseSats - tot.totalCurrentSats
    IN  IF NoLoss(totalLossSats) THEN Reject(400, "NoLossToHarvest", 0)
        ELSE
    LET totalLossUSD == satsToUSD(totalLossSats, body.btcPriceUSD)
        taxRate == IF body.userTaxRate # -1 THEN body.userTaxRate ELSE DEFAULT_TAX_RATE_PCT
        taxSavingsE4 == Times(totalLossUSD, taxRate)
        feeInfo == calculateServiceFee(taxSavingsE4)
        serviceFeeSats == usdToSats(feeInfo.feeCents, body.btcPriceUSD)
        totalOfferSats == w.env.minPayment * Len(body.ordinals)
        built == createBatchedOrdinalPurchasePSBT(
                    [ordinals |-> body.ordinals,
                     sellerAddress |-> body.sellerAddress,
                     totalOfferSats |-> totalOfferSats,
                     totalServiceFeeSats |-> serviceFeeSats,
                     btcPriceUSD |-> body.btcPriceUSD], w)
    IN  IF ~built.ok
        THEN Reject(500, built.error, built.calls)
        ELSE [status |-> 200, kind |-> "ok", calls |-> built.calls,
              psbt |-> built.psbt,
              transaction |-> [offerSats |-> totalOfferSats, serviceFeeSats |-> serviceFeeSats,
                               taxLossSats |-> totalLossSats, taxLossUSD |-> totalLossUSD,
                               taxSavingsE4 |-> taxSavingsE4, taxRate |-> taxRate,
                               feeCents |-> feeInfo.feeCents, tier |-> feeInfo.tier,
                               feePercent |-> feeInfo.feePercent],
              details |-> built.details]


(***************************************************************************)
(* broadcastPSBT and POST /api/finalize-psbt.                              *)
(*                                                                         *)
(* The request carries psbtBase64: absent, text that is no PSBT, or the    *)
(* serialization of a PSBT.  The handler ends in one response and at most  *)
(* one POST of a raw transaction to the network.                           *)
(***************************************************************************)
\* psbt.toBase64()
toBase64(psbt) == [form |-> "psbt", psbt |-> psbt]

NoBody == [form |-> "missing", psbt |-> EmptyPsbt]
Garbage == [form |-> "garbage", psbt |-> EmptyPsbt]

\* mutant: only the operator's inputs are required to be signed
finalizeAllInputs_OperatorOnly(psbt) ==
    \A i \in 1..Len(psbt.sigs) : psbt.inputs[i].owner = "harvy" => psbt.sigs[i] # "none"

\* finalizeAllInputs(): finalizeInput throws for an input that has no signature
\* (the library asks for the presence of a partial signature, not its validity)
finalizeAllInputs(psbt) == \A i \in 1..Len(psbt.sigs) : psbt.sigs[i] # "none"

\* extractTransaction(): the fee check throws 'Outputs are spending more than Inputs'
extractTransaction(psbt) == SumOutputs(psbt) <= SumValues(psbt.inputs)

\* what a node requires of a transaction: every input unspent and signed by the
\* key that controls it, and no more coming out than going in
NodeValid(tx, spentSet) ==
    /\ \A i \in 1..Len(tx.inputs) :
          /\ tx.sigs[i] = tx.inputs[i].owner
          /\ <<tx.inputs[i].txid, tx.inputs[i].vout>> \notin spentSet
    /\ SumOutputs(tx) <= SumValues(tx.inputs)

NoBroadcast(error, finalized) ==
    [ok |-> FALSE, error |-> error, finalized |-> finalized, posted |-> FALSE,
     tx |-> EmptyPsbt]

\* mutant: one output is taken to be enough
SanityError_OneOutputEnough(psbt) ==
    IF Len(psbt.inputs) < 1 THEN "NoInputs"
    ELSE IF Len(psbt.outputs) < 1 THEN "TooFewOutputs"
    ELSE IF SumOutputs(psbt) > MAX_TOTAL_OUTPUT_SATS THEN "OutputsExceedMaximum"
    ELSE "none"

\* the basic sanity checks: inputCount < 1, outputCount < 2,
\* totalOutputValue > MAX_TOTAL_OUTPUT_SATS
SanityError(psbt) ==
    IF Len(psbt.inputs) < 1 THEN "NoInputs"
    ELSE IF Len(psbt.outputs) < 2 THEN "TooFewOutputs"
    ELSE IF SumOutputs(psbt) > MAX_TOTAL_OUTPUT_SATS THEN "OutputsExceedMaximum"
    ELSE "none"

\* mutant: the extracted transaction has lost its last output
broadcastPSBT_DropsLastOutput(psbtBase64, nodeAccepts, libRefuses) ==
    IF psbtBase64.form # "psbt" THEN NoBroadcast("ParseError", FALSE)
    ELSE
    LET psbt == psbtBase64.psbt
        tx == [psbt EXCEPT !.outputs = SubSeq(@, 1, Len(@) - 1)]
    IN  IF SanityError(psbt) # "none" THEN NoBroadcast(SanityError(psbt), FALSE)
        ELSE IF ~finalizeAllInputs(psbt) THEN NoBroadcast("FinalizationError", FALSE)
        ELSE IF ~extractTransaction(psbt) \/ libRefuses
        THEN NoBroadcast("ExtractError", TRUE)
        ELSE IF ~nodeAccepts
        THEN [ok |-> FALSE, error |-> "BroadcastRejected", finalized |-> TRUE,
              posted |-> TRUE, tx |-> tx]
        ELSE [ok |-> TRUE, error |-> "none", finalized |-> TRUE,
              posted |-> TRUE, tx |-> tx]

\* mutant: the network's answer to the POST is not looked at
broadcastPSBT_IgnoresRejection(psbtBase64, nodeAccepts, libRefuses) ==
    IF psbtBase64.form # "psbt" THEN NoBroadcast("ParseError", FALSE)
    ELSE
    LET psbt == psbtBase64.psbt
    IN  IF SanityError(psbt) # "none" THEN NoBroadcast(SanityError(psbt), FALSE)
        ELSE IF ~finalizeAllInputs(psbt) THEN NoBroadcast("FinalizationError", FALSE)
        ELSE IF ~extractTransaction(psbt) \/ libRefuses
        THEN NoBroadcast("ExtractError", TRUE)
        ELSE [ok |-> TRUE, error |-> "none", finalized |-> TRUE,
              posted |-> TRUE, tx |-> psbt]

\* broadcastPSBT(psbtBase64); nodeAccepts is the network's answer to the POST
\* and libRefuses the library's fee-rate guard in extractTransaction
broadcastPSBT(psbtBase64, nodeAccepts, libRefuses) ==
    IF psbtBase64.form # "psbt" THEN NoBroadcast("ParseError", FALSE)
    ELSE
    LET psbt == psbtBase64.psbt
    IN  IF SanityError(psbt) # "none" THEN NoBroadcast(SanityError(psbt), FALSE)
        ELSE IF ~finalizeAllInputs(psbt) THEN NoBroadcast("FinalizationError", FALSE)
        ELSE IF ~extractTransaction(psbt) \/ libRefuses
        THEN NoBroadcast("ExtractError", TRUE)
        ELSE IF ~nodeAccepts
        THEN [ok |-> FALSE, error |-> "BroadcastRejected", finalized |-> TRUE,
              posted |-> TRUE, tx |-> psbt]
        ELSE [ok |-> TRUE, error |-> "none", finalized |-> TRUE,
              posted |-> TRUE, tx |-> psbt]

\* POST /api/finalize-psbt
PostFinalizePsbt(psbtBase64, nodeAccepts, libRefuses) ==
    IF psbtBase64.form = "missing"
    THEN [status |-> 400, kind |-> "MissingFields", finalized |-> FALSE,
          posted |-> FALSE, tx |-> EmptyPsbt]
    ELSE LET b == broadcastPSBT(psbtBase64, nodeAccepts, libRefuses)
         IN  IF b.ok
             THEN [status |-> 200, kind |-> "ok", finalized |-> b.finalized,
                   posted |-> b.posted, tx |-> b.tx]
             ELSE [status |-> 500, kind |-> b.error, finalized |-> b.finalized,
                   posted |-> b.posted, tx |-> b.tx]

(***************************************************************************)
(* The worlds a request is served in: the operator's wallet, the seller's  *)
(* wallet and the process environment.                                     *)
(***************************************************************************)
\* values an operator UTXO takes in the model
WalletValues == {1000, 1646, 60000}

\* the operator's unspent outputs, in the order the UTXO Source lists them
HarvyWallets ==
    UNION { { [i \in 1..n |-> [txid |-> i, vout |-> 0, value |-> vals[i], owner |-> "harvy"]] :
              vals \in [1..n -> WalletValues] } : n \in 0..MaxWalletLen }

\* the seller holds three inscriptions and one plain payment UTXO, and then
\* as many further inscriptions as make a batch one over the limit
SellerWallet ==
    << [txid |-> 101, vout |-> 0, value |-> 600, owner |-> "seller"],
       [txid |-> 102, vout |-> 0, value |-> 546, owner |-> "seller"],
       [txid |-> 103, vout |-> 0, value |-> 10000, owner |-> "seller"],
       [txid |-> 201, vout |-> 0, value |-> 5000, owner |-> "seller"] >>
    \o [j \in 1..(MAX_BATCH - 2) |->
          [txid |-> 103 + j, vout |-> 0, value |-> 546, owner |-> "seller"]]

UtxoSetOf(harvyWallet) ==
    [a \in Addresses |->
        CASE a = "harvy" -> harvyWallet
          [] a = "seller" -> SellerWallet
          [] OTHER -> <<>>]

GoodEnv ==
    [harvyAddress |-> TRUE, privateKey |-> "match",
     assumedTaxRate |-> DEFAULT_TAX_RATE_PCT,
     maxServiceFeeUSD |-> DEFAULT_MAX_SERVICE_FEE_USD,
     minPayment |-> DEFAULT_MIN_PAYMENT_SATS]

Envs ==
    { GoodEnv,
      [GoodEnv EXCEPT !.harvyAddress = FALSE],
      [GoodEnv EXCEPT !.privateKey = "unset"],
      [GoodEnv EXCEPT !.privateKey = "invalid"],
      [GoodEnv EXCEPT !.privateKey = "mismatch"],
      [GoodEnv EXCEPT !.minPayment = 599] }

TwoUtxoWallet ==
    << [txid |-> 1, vout |-> 0, value |-> 1000, owner |-> "harvy"],
       [txid |-> 2, vout |-> 0, value |-> 60000, owner |-> "harvy"] >>

\* every wallet under the good environment, every environment with one wallet
Worlds ==
    { <<UtxoSetOf(hw), GoodEnv>> : hw \in HarvyWallets }
    \cup { <<UtxoSetOf(TwoUtxoWallet), e>> : e \in Envs }

(***************************************************************************)
(* Request bodies.                                                         *)
(***************************************************************************)
\* userTaxRate values in percent: 0, 1.0, 1.01 and text that is no number
UserTaxRates == { 0, 100, 101, NaN }

PricePairs == { <<5000000, 3000000>>, <<1000, 1000>>, <<1000, 6000>>, <<1000, 0>> }

SingleBodies ==
    { [inscriptionId |-> id, sellerAddress |-> addr, sellerPaymentUTXOs |-> pay,
       purchasePriceSats |-> pp[1], currentPriceSats |-> pp[2],
       btcPriceUSD |-> 100000, userTaxRate |-> -1] :
      id \in { <<101, 0>>, <<101, 1>> },
      addr \in { "seller", "bad" },
      pay \in { <<>>, << [txid |-> 201, vout |-> 0] >> },
      pp \in PricePairs }
    \cup
    { [inscriptionId |-> <<101, 0>>, sellerAddress |-> "seller", sellerPaymentUTXOs |-> <<>>,
       purchasePriceSats |-> 5000000, currentPriceSats |-> 3000000,
       btcPriceUSD |-> 100000, userTaxRate |-> rate] : rate \in UserTaxRates }

Ordinals ==
    { [inscriptionId |-> <<101, 0>>, purchasePriceSats |-> 5000000, currentPriceSats |-> 3000000],
      [inscriptionId |-> <<102, 0>>, purchasePriceSats |-> 1000, currentPriceSats |-> 0],
      [inscriptionId |-> <<103, 0>>, purchasePriceSats |-> 1000, currentPriceSats |-> 6000],
      [inscriptionId |-> <<101, 1>>, purchasePriceSats |-> 1000, currentPriceSats |-> 0],
      [inscriptionId |-> <<102, 0>>, purchasePriceSats |-> 1000, currentPriceSats |-> 1000] }

\* n ordinals of the seller's wallet, each bought at 1000 sats and now worthless
ManyOrdinals(n) ==
    [j \in 1..n |-> [inscriptionId |-> <<100 + j, 0>>, purchasePriceSats |-> 1000,
                     currentPriceSats |-> 0]]

OrdinalLists == UNION { [1..n -> Ordinals] : n \in 1..MaxBatch }

BatchBodies ==
    { [ordinals |-> ords, sellerAddress |-> addr, btcPriceUSD |-> 100000, userTaxRate |-> -1] :
      ords \in OrdinalLists, addr \in { "seller" } }
    \cup
    { [ordinals |-> << ord >>, sellerAddress |-> "seller", btcPriceUSD |-> 100000,
       userTaxRate |-> rate] : ord \in Ordinals, rate \in UserTaxRates }
    \cup
    { [ordinals |-> ManyOrdinals(n), sellerAddress |-> "seller", btcPriceUSD |-> 100000,
       userTaxRate |-> -1] : n \in { MAX_BATCH, MAX_BATCH + 1 } }

(***************************************************************************)
(* The build endpoints: one request is served per behaviour.               *)
(***************************************************************************)
NoReq == [route |-> "none", failAt |-> 0]
Pending == [status |-> 0, kind |-> "pending", calls |-> 0, psbt |-> EmptyPsbt]

World(failAt) == [utxoSet |-> utxoSet, env |-> env, failAt |-> failAt]

CalcIdle ==
    /\ calcArgs = [op |-> "none"]
    /\ calcResult = [op |-> "none"]

SelIdle ==
    /\ selArgs = [utxos |-> <<>>, targetSats |-> 0, feeEstimate |-> 0]
    /\ selResult = [ok |-> FALSE, error |-> "idle", selected |-> <<>>, total |-> 0, change |-> 0]

BuildIdle ==
    /\ utxoSet = [a \in Addresses |-> <<>>]
    /\ env = GoodEnv
    /\ req = NoReq
    /\ resp = Pending

NoFinResp ==
    [status |-> 0, kind |-> "pending", finalized |-> FALSE, posted |-> FALSE,
     tx |-> EmptyPsbt]

\* no request queue is running
QueueIdle ==
    /\ maxConcurrent = 0
    /\ requestQueue = <<>>
    /\ activeRequests = 0
    /\ inFlight = {}
    /\ timers = 0
    /\ enqueued = 0
    /\ startLog = <<>>

FinIdle ==
    /\ held = EmptyPsbt
    /\ finReq = NoBody
    /\ finResp = NoFinResp
    /\ submitted = <<>>
    /\ spent = {}

LifeIdle ==
    /\ jobs = <<>>
    /\ finLog = <<>>

BuildInit ==
    /\ \E wd \in Worlds : utxoSet = wd[1] /\ env = wd[2]
    /\ req = NoReq
    /\ resp = Pending

Init == CalcIdle /\ SelIdle /\ BuildInit /\ FinIdle /\ LifeIdle /\ QueueIdle

CreatePsbtOffer(body, failAt) ==
    /\ req.route = "none"
    /\ req' = [route |-> "single", body |-> body, failAt |-> failAt]
    /\ \E w \in { World(failAt) } : resp' = PostCreatePsbtOffer(body, w)
    /\ UNCHANGED <<utxoSet, env>>
    /\ UNCHANGED <<calcVars, selVars, finVars, lifeVars, queueVars>>

CreateBatchPsbt(body, failAt) ==
    /\ req.route = "none"
    /\ req' = [route |-> "batch", body |-> body, failAt |-> failAt]
    /\ \E w \in { World(failAt) } : resp' = PostCreateBatchPsbt(body, w)
    /\ UNCHANGED <<utxoSet, env>>
    /\ UNCHANGED <<calcVars, selVars, finVars, lifeVars, queueVars>>

Next ==
    \/ \E body \in SingleBodies, failAt \in 0..MaxFailAt : CreatePsbtOffer(body, failAt)
    \/ \E body \in BatchBodies, failAt \in 0..MaxFailAt : CreateBatchPsbt(body, failAt)

Spec == Init /\ [][Next]_vars


(***************************************************************************)
(* The finalize endpoint: the seller holds a PSBT (one a builder returned, *)
(* or one of the seller's own making), signs inputs of it and posts it.    *)
(***************************************************************************)
FixedWorld == [utxoSet |-> UtxoSetOf(TwoUtxoWallet), env |-> GoodEnv, failAt |-> 0]

\* a single swap and a batch of two, as the build endpoints return them
BuiltPsbts ==
    { PostCreatePsbtOffer(
          [inscriptionId |-> <<101, 0>>, sellerAddress |-> "seller",
           sellerPaymentUTXOs |-> <<>>, purchasePriceSats |-> 1000,
           currentPriceSats |-> 0, btcPriceUSD |-> 100000, userTaxRate |-> -1],
          FixedWorld).psbt,
      PostCreateBatchPsbt(
          [ordinals |-> << [inscriptionId |-> <<101, 0>>, purchasePriceSats |-> 1000,
                            currentPriceSats |-> 0],
                           [inscriptionId |-> <<102, 0>>, purchasePriceSats |-> 1000,
                            currentPriceSats |-> 0] >>,
           sellerAddress |-> "seller", btcPriceUSD |-> 100000, userTaxRate |-> -1],
          FixedWorld).psbt }

\* PSBTs of the seller's own making: no signature yet
\* an output of more than 10 BTC that the seller owns
WhaleUtxo == [txid |-> 301, vout |-> 0, value |-> 1000000700, owner |-> "seller"]

ForgedInputLists ==
    { <<>>, << TwoUtxoWallet[2] >>, << TwoUtxoWallet[2], SellerWallet[1] >>, << WhaleUtxo >> }

ForgedOutputValues == {600, 500000000, 500000001}

ForgedOutputLists ==
    UNION { { [j \in 1..n |-> [address |-> "seller", value |-> vals[j]]] :
              vals \in [1..n -> ForgedOutputValues] } : n \in 0..MaxForgedOutputs }

ForgedPsbts ==
    { [inputs |-> ins, outputs |-> outs, sigs |-> [j \in 1..Len(ins) |-> "none"]] :
      ins \in ForgedInputLists, outs \in ForgedOutputLists }

FinInit ==
    /\ CalcIdle
    /\ LifeIdle
    /\ QueueIdle
    /\ SelIdle
    /\ BuildIdle
    /\ held \in BuiltPsbts \cup ForgedPsbts
    /\ finReq = NoBody
    /\ finResp = NoFinResp
    /\ submitted = <<>>
    /\ spent = {}

\* the seller's wallet signs input i of the PSBT it holds
SellerSign(i) ==
    /\ i \in 1..Len(held.sigs)
    /\ held.sigs[i] = "none"
    /\ held' = [held EXCEPT !.sigs[i] = "seller"]
    /\ UNCHANGED <<finReq, finResp, submitted, spent>>
    /\ UNCHANGED <<calcVars, selVars, buildVars, lifeVars, queueVars>>

\* one POST /api/finalize-psbt, served to its response
FinalizePsbt(psbtBase64, nodeAccepts, libRefuses) ==
    /\ Len(submitted) < MaxSubmissions
    /\ nodeAccepts => (psbtBase64.form = "psbt" /\ NodeValid(psbtBase64.psbt, spent))
    /\ LET r == PostFinalizePsbt(psbtBase64, nodeAccepts, libRefuses)
       IN  /\ finReq' = psbtBase64
           /\ finResp' = r
           /\ submitted' = IF r.posted THEN Append(submitted, r.tx) ELSE submitted
           /\ spent' = IF r.kind = "ok"
                       THEN spent \cup { <<r.tx.inputs[j].txid, r.tx.inputs[j].vout>> :
                                         j \in 1..Len(r.tx.inputs) }
                       ELSE spent
    /\ UNCHANGED held
    /\ UNCHANGED <<calcVars, selVars, buildVars, lifeVars, queueVars>>

FinNext ==
    \/ \E i \in 1..Len(held.sigs) : SellerSign(i)
    \/ \E body \in {toBase64(held), NoBody, Garbage}, nodeAccepts \in BOOLEAN,
          libRefuses \in BOOLEAN :
          FinalizePsbt(body, nodeAccepts, libRefuses)

SpecFinalize == FinInit /\ [][FinNext]_vars

(***************************************************************************)
(* Properties of the finalize endpoint (specification SpecFinalize).       *)
(***************************************************************************)
AllInputsSigned(psbt) == \A i \in 1..Len(psbt.inputs) : psbt.sigs[i] # "none"

FinServed == finResp.kind # "pending"

Unsound(psbt, atLeast) ==
    \/ Len(psbt.inputs) < 1
    \/ Len(psbt.outputs) < 2
    \/ SumOutputs(psbt) >= atLeast

SanityRejected ==
    /\ finResp.kind \in {"NoInputs", "TooFewOutputs", "OutputsExceedMaximum"}
    /\ finResp.status = 500
    /\ ~finResp.finalized
    /\ ~finResp.posted

\* C7 (as stated): a PSBT with fewer than 1 input, fewer than 2 outputs, or an
\* output sum that is not below 1,000,000,000 sats is rejected by the sanity
\* checks, before any input is finalized and before any broadcast attempt.
C7_SanityRejectsAtCeiling ==
    (FinServed /\ finReq.form = "psbt" /\ Unsound(finReq.psbt, MAX_TOTAL_OUTPUT_SATS))
    => SanityRejected

\* C7 (amended): a PSBT with fewer than 1 input, fewer than 2 outputs, or an
\* output sum above 1,000,000,000 sats is rejected by the sanity checks, before
\* any input is finalized and before any broadcast attempt; a sum of exactly
\* 1,000,000,000 sats passes them.
C7_SanityRejectsAboveCeiling ==
    /\ (FinServed /\ finReq.form = "psbt" /\ Unsound(finReq.psbt, MAX_TOTAL_OUTPUT_SATS + 1))
       => SanityRejected
    /\ \A n \in 1..Len(submitted) : ~Unsound(submitted[n], MAX_TOTAL_OUTPUT_SATS + 1)

C7_Witness ==
    /\ finReq.form = "psbt"
    /\ Len(finReq.psbt.inputs) = 1
    /\ Len(finReq.psbt.outputs) = 1
    /\ AllInputsSigned(finReq.psbt)
    /\ finResp.kind = "TooFewOutputs"

\* same ordered inputs and same ordered outputs
SameStructure(a, b) == a.inputs = b.inputs /\ a.outputs = b.outputs

SingleReturned == req.route = "single" /\ resp.kind = "ok"
BatchReturned == req.route = "batch" /\ resp.kind = "ok"

\* the requests the handler rejects before it reaches the builder
ValidationKinds ==
    { "MissingFields", "InvalidAddress", "NotConfigured", "InvalidPurchasePrice",
      "InvalidCurrentPrice", "InvalidBtcPrice", "InvalidTrade", "LimitExceeded",
      "InvalidTaxRate", "FeeExceedsLimit", "KeyMissing", "BatchTooLarge",
      "NoLossToHarvest" }

\* the sum of the values of the first k inputs of a PSBT
FirstInputsSum(psbt, k) == SumValues(SubSeq(psbt.inputs, 1, k))

\* the value of the input at 0-based index i
InputValue(psbt, i) == psbt.inputs[i + 1].value

\* C1 (as stated): in a returned single-swap PSBT sellerPayment + inscriptionValue
\* + serviceFee + harvyChange equals the operator-selected inputs' sum plus the
\* inscription UTXO's value.
C1_OutputAccountingWithServiceFee ==
    SingleReturned =>
        LET d == resp.details
            k == d.harvyInputCount
        IN  d.outputs.sellerPayment + d.outputs.inscriptionValue
              + d.outputs.serviceFee + d.outputs.harvyChange
            = FirstInputsSum(resp.psbt, k) + InputValue(resp.psbt, k)

\* C1 (amended): the balance holds with the selector's fixed 1500-sat fee estimate
\* in the place of the service fee: sellerPayment + inscriptionValue + 1500 +
\* harvyChange equals the operator-selected inputs' sum plus the inscription
\* UTXO's value, whatever the service fee is.
C1_OutputAccountingWithFeeEstimate ==
    SingleReturned =>
        LET d == resp.details
            k == d.harvyInputCount
        IN  d.outputs.sellerPayment + d.outputs.inscriptionValue
              + SINGLE_FEE_ESTIMATE + d.outputs.harvyChange
            = FirstInputsSum(resp.psbt, k) + InputValue(resp.psbt, k)

C1_Witness ==
    /\ SingleReturned
    /\ resp.details.harvyInputCount >= 2
    /\ resp.details.outputs.serviceFee > 0
    /\ resp.details.outputs.serviceFee # SINGLE_FEE_ESTIMATE
    /\ resp.details.outputs.harvyChange > CHANGE_DUST_SATS

\* C2 (as stated): a single-swap request with currentPriceSats >= purchasePriceSats
\* that passes the checks made before the loss check is rejected as InvalidTrade
\* and no UTXO-source call is made, the equal case included.
C2_LossGating ==
    ( /\ req.route = "single"
      /\ req.body.currentPriceSats >= req.body.purchasePriceSats
      /\ resp.kind \notin { "MissingFields", "InvalidAddress", "NotConfigured",
                            "InvalidPurchasePrice", "InvalidCurrentPrice",
                            "InvalidBtcPrice" } )
    => (resp.kind = "InvalidTrade" /\ resp.calls = 0)

\* the signature slots holding the operator's signature, as 0-based indices
HarvySigned(psbt) == { i \in 0 .. (InputCount(psbt) - 1) : psbt.sigs[i + 1] = "harvy" }

\* C3: a PSBT returned by either builder carries the operator's signature on
\* exactly the input indices 0..k-1 (k = harvyInputCount), each on an input the
\* operator's key controls; every input at an index >= k is unsigned and is not
\* the operator's; and when the operator's key cannot produce valid signatures
\* (unset, malformed or not the wallet's key) no PSBT is returned.
C3_OperatorSignsOwnInputsOnly ==
    /\ resp.kind = "ok" =>
          LET k == resp.details.harvyInputCount
              n == InputCount(resp.psbt)
          IN  /\ k >= 1 /\ k < n
              /\ HarvySigned(resp.psbt) = 0 .. (k - 1)
              /\ \A i \in 0 .. (k - 1) : resp.psbt.inputs[i + 1].owner = "harvy"
              /\ \A i \in k .. (n - 1) :
                    /\ resp.psbt.sigs[i + 1] = "none"
                    /\ resp.psbt.inputs[i + 1].owner # "harvy"
    /\ (req.route # "none" /\ env.privateKey # "match") => resp.kind # "ok"

C3_Witness ==
    /\ BatchReturned
    /\ resp.details.harvyInputCount >= 2
    /\ resp.details.sellerInputCount >= 2
    /\ HarvySigned(resp.psbt) = 0 .. (resp.details.harvyInputCount - 1)

\* C4: for a returned batch PSBT with N inscriptions, details.sellerInputIndices
\* is the sequence k, k+1, ..., k+N-1 (k = the number of operator funding inputs),
\* each index pointing at the input that spends the corresponding ordinal, and
\* with the operator-signed indices 0..k-1 it partitions the PSBT's inputs.
C4_BatchSellerIndices ==
    BatchReturned =>
        LET d == resp.details
            k == d.harvyInputCount
            n == Len(req.body.ordinals)
        IN  /\ d.sellerInputIndices = [j \in 1..n |-> k + j - 1]
            /\ InputCount(resp.psbt) = k + n
            /\ HarvySigned(resp.psbt) = 0 .. (k - 1)
            /\ \A j \in 1..n :
                  LET inp == resp.psbt.inputs[d.sellerInputIndices[j] + 1]
                  IN  /\ <<inp.txid, inp.vout>> = req.body.ordinals[j].inscriptionId
                      /\ inp.owner = "seller"

C4_Witness ==
    /\ BatchReturned
    /\ Len(req.body.ordinals) >= 2
    /\ resp.details.harvyInputCount >= 2
    /\ resp.details.sellerInputIndices[1] = resp.details.harvyInputCount

\* the inputs of a returned single swap as the request determines them: the k
\* operator inputs, the inscription input, then the request's sellerPaymentUTXOs
SingleInputsShape(extra) ==
    LET k == resp.details.harvyInputCount
        ins == resp.psbt.inputs
    IN  /\ k >= 1
        /\ Len(ins) = k + 1 + extra
        /\ \A i \in 1..k :
              /\ ins[i].owner = "harvy"
              /\ \E j \in 1..Len(utxoSet["harvy"]) : utxoSet["harvy"][j] = ins[i]
        /\ \A i, j \in 1..k : ins[i] = ins[j] => i = j
        /\ <<ins[k + 1].txid, ins[k + 1].vout>> = req.body.inscriptionId
        /\ ins[k + 1].owner = "seller"

\* C8 (as stated): every returned single-swap PSBT has exactly k + 1 inputs, the
\* operator's at 0..k-1 and the inscription UTXO at k, and no other input.
C8_SingleInputsExactlyKPlusOne ==
    SingleReturned => SingleInputsShape(0)

\* C8 (amended): every returned single-swap PSBT has exactly k + 1 + m inputs,
\* m being the number of sellerPaymentUTXOs of the request body (0 when the
\* body has none): the operator's at 0..k-1, the inscription UTXO at k, then
\* the request's seller payment UTXOs at k+1..k+m in the order given.
C8_SingleInputsWithSellerPayments ==
    SingleReturned =>
        LET k == resp.details.harvyInputCount
            pay == req.body.sellerPaymentUTXOs
        IN  /\ SingleInputsShape(Len(pay))
            /\ \A j \in 1..Len(pay) :
                  /\ resp.psbt.inputs[k + 1 + j].txid = pay[j].txid
                  /\ resp.psbt.inputs[k + 1 + j].vout = pay[j].vout
            /\ resp.details.sellerInputCount = 1 + Len(pay)

C8_Witness ==
    /\ SingleReturned
    /\ resp.details.harvyInputCount >= 2
    /\ Len(req.body.sellerPaymentUTXOs) = 1
    /\ InputCount(resp.psbt) = resp.details.harvyInputCount + 2

\* the outputs of a returned single swap, the change being emitted when keepChange
SingleOutputsShape(keepChange) ==
    LET d == resp.details
    IN  resp.psbt.outputs =
            << [address |-> req.body.sellerAddress, value |-> env.minPayment],
               [address |-> "harvy", value |-> d.inscriptionUTXO.value] >>
            \o (IF Gt(resp.transaction.serviceFeeSats, 0)
                THEN << [address |-> "harvy", value |-> resp.transaction.serviceFeeSats] >>
                ELSE <<>>)
            \o (IF keepChange
                THEN << [address |-> "harvy", value |-> d.outputs.harvyChange] >>
                ELSE <<>>)

\* the single-swap build stops at the offer check when the payment is too small
SmallPaymentFails ==
    (req.route = "single" /\ env.minPayment < MIN_OFFER_SATS)
    => /\ resp.kind \in (ValidationKinds \cup {"BelowDustLimit"})
       /\ resp.calls = 0

\* C9 (as stated): the outputs are payment-to-seller, inscription-to-operator with
\* the inscription UTXO's value, the service fee iff it is non-zero, the operator
\* change iff it is not below the dust threshold (546), in this order; a seller
\* payment below the threshold fails the build with BelowDustLimit.
C9_SingleOutputsChangeAtDust ==
    /\ SingleReturned =>
          /\ SingleOutputsShape(resp.details.outputs.harvyChange >= CHANGE_DUST_SATS)
          /\ InputValue(resp.psbt, resp.details.harvyInputCount)
               = resp.details.inscriptionUTXO.value
    /\ SmallPaymentFails

\* C9 (amended): as stated, except that the operator change is present iff it
\* exceeds the dust threshold (harvyChange > 546): a change of exactly 546 sats
\* is dropped.  The service fee output is present iff the fee is positive, and
\* a seller payment below 600 sats fails the build with BelowDustLimit.
C9_SingleOutputsChangeAboveDust ==
    /\ SingleReturned =>
          /\ SingleOutputsShape(resp.details.outputs.harvyChange > CHANGE_DUST_SATS)
          /\ InputValue(resp.psbt, resp.details.harvyInputCount)
               = resp.details.inscriptionUTXO.value
    /\ SmallPaymentFails

C9_Witness ==
    /\ SingleReturned
    /\ resp.details.outputs.harvyChange = CHANGE_DUST_SATS
    /\ resp.transaction.serviceFeeSats > 0
    /\ Len(resp.psbt.outputs) = 3

\* C10: in a returned batch PSBT for N ordinals, output 0 pays the seller
\* minPayment x N, outputs 1..N pay the operator the values of the seller inputs
\* k..k+N-1 in the order of the request's ordinals, and what follows is the
\* service-fee output (only when the fee is positive) and then the operator
\* change output (only when the change exceeds 546): at most one of each.
C10_BatchOutputs ==
    BatchReturned =>
        LET d == resp.details
            k == d.harvyInputCount
            n == Len(req.body.ordinals)
            outs == resp.psbt.outputs
        IN  /\ Len(outs) >= n + 1 /\ Len(outs) <= n + 3
            /\ outs[1] = [address |-> req.body.sellerAddress, value |-> env.minPayment * n]
            /\ \A j \in 0 .. (n - 1) :
                  /\ outs[2 + j] = [address |-> "harvy", value |-> InputValue(resp.psbt, k + j)]
                  /\ <<resp.psbt.inputs[k + j + 1].txid, resp.psbt.inputs[k + j + 1].vout>>
                        = req.body.ordinals[j + 1].inscriptionId
            /\ SubSeq(outs, n + 2, Len(outs)) =
                  (IF d.outputs.serviceFee > 0
                   THEN << [address |-> "harvy", value |-> d.outputs.serviceFee] >>
                   ELSE <<>>)
                  \o (IF d.outputs.harvyChange > CHANGE_DUST_SATS
                      THEN << [address |-> "harvy", value |-> d.outputs.harvyChange] >>
                      ELSE <<>>)

C10_Witness ==
    /\ BatchReturned
    /\ Len(req.body.ordinals) = 2
    /\ InputValue(resp.psbt, resp.details.harvyInputCount)
         # InputValue(resp.psbt, resp.details.harvyInputCount + 1)
    /\ Len(resp.psbt.outputs) = 5

\* C14: a batch request of more than 20 ordinals is rejected as BatchTooLarge
\* without any UTXO-source call and without a PSBT; no returned batch PSBT has
\* more than 20 seller inputs.
C14_BatchSizeBound ==
    /\ (req.route = "batch" /\ Len(req.body.ordinals) > MAX_BATCH) =>
          /\ resp.kind = "BatchTooLarge"
          /\ resp.status = 400
          /\ resp.calls = 0
          /\ resp.psbt = EmptyPsbt
    /\ BatchReturned =>
          /\ resp.details.sellerInputCount <= MAX_BATCH
          /\ InputCount(resp.psbt) - resp.details.harvyInputCount <= MAX_BATCH

C14_Witness ==
    /\ req.route = "batch"
    /\ Len(req.body.ordinals) = MAX_BATCH + 1
    /\ resp.kind = "BatchTooLarge"

RECURSIVE SumField(_, _)
\* the sum over the ordinals of a request of purchasePriceSats - currentPriceSats
SumField(ordinals, acc) ==
    IF ordinals = <<>> THEN acc
    ELSE SumField(Tail(ordinals),
                  acc + Head(ordinals).purchasePriceSats - Head(ordinals).currentPriceSats)

BatchLoss == SumField(req.body.ordinals, 0)

\* C15: a batch request whose aggregate loss sum(purchasePriceSats) -
\* sum(currentPriceSats) is <= 0, and which passes the checks made before the
\* loss check (ordinals present and at most 20, fields present, address,
\* environment, purchase prices in range), is rejected as NoLossToHarvest with no
\* PSBT and no UTXO-source call; every returned batch PSBT has an aggregate
\* loss > 0.
C15_BatchLossGating ==
    /\ ( /\ req.route = "batch"
         /\ BatchLoss <= 0
         /\ resp.kind \notin { "MissingFields", "BatchTooLarge", "InvalidAddress",
                               "NotConfigured", "InvalidPurchasePrice" } )
       => /\ resp.kind = "NoLossToHarvest"
          /\ resp.status = 400
          /\ resp.calls = 0
          /\ resp.psbt = EmptyPsbt
    /\ BatchReturned => (BatchLoss > 0 /\ resp.transaction.taxLossSats = BatchLoss)

C15_Witness ==
    /\ req.route = "batch"
    /\ Len(req.body.ordinals) = 2
    /\ BatchLoss = 0
    /\ resp.kind = "NoLossToHarvest"

\* the service fee in cents that a loss, a BTC price and a tax rate in percent give
FeeCentsOf(lossSats, btcPriceUSD, ratePct) ==
    calculateServiceFee(Times(satsToUSD(lossSats, btcPriceUSD), ratePct)).feeCents

\* what the single-swap handler requires of a request before it calls the builder
SingleBodyValidated ==
    LET b == req.body
        loss == b.purchasePriceSats - b.currentPriceSats
        rate == IF b.userTaxRate # -1 THEN b.userTaxRate ELSE env.assumedTaxRate
    IN  /\ b.inscriptionId # <<>>
        /\ b.sellerAddress \in {"seller", "other"}
        /\ env.harvyAddress /\ env.privateKey # "unset"
        /\ b.purchasePriceSats \in 1..MAX_PURCHASE_SATS
        /\ b.currentPriceSats >= 0
        /\ b.btcPriceUSD \in 1..MAX_BTC_PRICE_USD
        /\ loss >= 0 /\ loss <= MAX_LOSS_SATS
        /\ IsNaN(rate) \/ rate \in 0..100
        /\ ~Gt(FeeCentsOf(loss, b.btcPriceUSD, rate), env.maxServiceFeeUSD * 100)

\* what the batch handler requires of a request before it calls the builder
BatchBodyValidated ==
    LET b == req.body
    IN  /\ Len(b.ordinals) \in 1..MAX_BATCH
        /\ b.sellerAddress \in {"seller", "other"}
        /\ b.btcPriceUSD # 0
        /\ env.harvyAddress /\ env.privateKey # "unset"
        /\ \A j \in 1..Len(b.ordinals) :
              /\ b.ordinals[j].inscriptionId # <<>>
              /\ b.ordinals[j].purchasePriceSats \in 1..MAX_PURCHASE_SATS
        /\ BatchLoss > 0

\* C16: in both build handlers a validation rejection (missing field, address
\* format, price range, trade direction, loss cap, tax rate, fee ceiling, batch
\* size, no loss) is answered with no UTXO-source call made and nothing signed;
\* a UTXO-source call is made only for a request that passed every check of its
\* handler.
C16_ValidationPrecedesIO ==
    /\ resp.kind \in ValidationKinds =>
          /\ resp.calls = 0
          /\ resp.psbt = EmptyPsbt
          /\ resp.status \in {400, 500}
    /\ (req.route = "single" /\ resp.calls > 0) => SingleBodyValidated
    /\ (req.route = "batch" /\ resp.calls > 0) => BatchBodyValidated

C16_Witness ==
    /\ req.route = "single"
    /\ resp.kind = "FeeExceedsLimit"
    /\ req.body.userTaxRate = 100
    /\ resp.calls = 0

\* the inscription ids a request names
RequestedIds ==
    IF req.route = "single" THEN << req.body.inscriptionId >>
    ELSE [j \in 1..Len(req.body.ordinals) |-> req.body.ordinals[j].inscriptionId]

\* the UTXO Source lists an output with these coordinates at the seller's address
HeldBySeller(id) ==
    /\ req.body.sellerAddress \in Addresses
    /\ \E j \in 1..Len(utxoSet[req.body.sellerAddress]) :
          /\ utxoSet[req.body.sellerAddress][j].txid = id[1]
          /\ utxoSet[req.body.sellerAddress][j].vout = id[2]

\* what the operator's wallet must cover for the request
FundingNeeded ==
    IF req.route = "single" THEN env.minPayment + SINGLE_FEE_ESTIMATE
    ELSE env.minPayment * Len(req.body.ordinals)
         + SumValues(resp.details.inscriptionUTXOs)
         + EstimatedFee(Len(req.body.ordinals))

\* C17: a response carries a PSBT only when every UTXO-source step of the build
\* succeeded: no call failed, every requested inscription was found in the
\* seller's UTXO set, and the operator's wallet covered the amount needed; any
\* other build ends in an error response without a PSBT, and in a batch one
\* missing inscription fails the build for all.
C17_NoPartialPsbt ==
    /\ (req.route # "none" /\ resp.kind # "ok") =>
          /\ resp.psbt = EmptyPsbt
          /\ resp.status \in {400, 500}
    /\ resp.kind = "ok" =>
          /\ req.failAt = 0 \/ req.failAt > resp.calls
          /\ \A j \in 1..Len(RequestedIds) : HeldBySeller(RequestedIds[j])
          /\ SumValues(utxoSet["harvy"]) >= FundingNeeded
          /\ InputCount(resp.psbt) >= resp.details.harvyInputCount + Len(RequestedIds)
          /\ resp.calls >= InputCount(resp.psbt) + 1 + Len(RequestedIds)

C17_Witness ==
    /\ req.route = "batch"
    /\ Len(req.body.ordinals) = 2
    /\ HeldBySeller(req.body.ordinals[1].inscriptionId)
    /\ ~HeldBySeller(req.body.ordinals[2].inscriptionId)
    /\ resp.kind = "InscriptionNotFound"
    /\ resp.calls = 2
    /\ resp.psbt = EmptyPsbt

\* C18 (as stated): neither build endpoint returns a PSBT when the computed
\* service fee in USD exceeds MAX_SERVICE_FEE_USD; such a request that passes the
\* checks made before the fee is computed is rejected as FeeExceedsLimit.
C18_FeeCeiling ==
    /\ resp.kind = "ok" =>
          ~Gt(resp.transaction.feeCents, env.maxServiceFeeUSD * 100)
    /\ ( /\ req.route = "single"
         /\ resp.kind \notin (ValidationKinds \ {"FeeExceedsLimit", "KeyMissing"})
         /\ Gt(FeeCentsOf(req.body.purchasePriceSats - req.body.currentPriceSats,
                          req.body.btcPriceUSD,
                          IF req.body.userTaxRate # -1 THEN req.body.userTaxRate
                          ELSE env.assumedTaxRate),
               env.maxServiceFeeUSD * 100) )
       => resp.kind = "FeeExceedsLimit"

\* C22: every output of a PSBT a builder returns (seller payment, inscription
\* outputs, service-fee output, change output) has a value of at least the
\* dust threshold of 546 sats; a smaller output is left out.
C22_DustRule ==
    resp.kind = "ok" =>
        \A j \in 1..Len(resp.psbt.outputs) : resp.psbt.outputs[j].value >= CHANGE_DUST_SATS

\* rate x (overhead + perInput x inputCount + perOutput x outputCount)
LinearFee(inputCount, outputCount) ==
    (BATCH_OVERHEAD_VBYTES + (BATCH_INPUT_VBYTES * inputCount)
        + (BATCH_OUTPUT_VBYTES * outputCount)) * BATCH_FEE_RATE

\* C24: the fee estimate of a returned batch PSBT is the linear model applied
\* to the numbers of inputs and outputs of the PSBT that was built.
C24_BatchFeeEstimate ==
    BatchReturned =>
        resp.details.estimatedFee =
            LinearFee(Len(resp.psbt.inputs), Len(resp.psbt.outputs))

\* C25: in every PSBT a builder returns the outputs sum to at most what the
\* inputs sum to: the implied network fee is not negative.
C25_Fundable ==
    resp.kind = "ok" => SumOutputs(resp.psbt) <= SumValues(resp.psbt.inputs)

\* what the operator's selected inputs put in, less what the service-fee and
\* change outputs of the PSBT (the outputs after the inscription output) pay
\* back to the operator
OperatorOutlay ==
    FirstInputsSum(resp.psbt, resp.details.harvyInputCount)
        - SumValues(SubSeq(resp.psbt.outputs, 3, Len(resp.psbt.outputs)))

\* C26: in a returned single-swap PSBT the operator's net cash outlay is at
\* most offerSats + 1500 (the fee estimate) + 546 (the largest change that is
\* dropped), whatever the operator's UTXOs and the service fee are.
C26_BoundedOperatorOutlay ==
    SingleReturned =>
        OperatorOutlay <= resp.transaction.offerSats + SINGLE_FEE_ESTIMATE + CHANGE_DUST_SATS

\* a change of exactly 546 sats is dropped and no service fee is paid: the
\* outlay is the bound itself
C26_Witness ==
    /\ SingleReturned
    /\ resp.details.harvyInputCount = 2
    /\ resp.details.outputs.harvyChange = CHANGE_DUST_SATS
    /\ Len(resp.psbt.outputs) = 2
    /\ OperatorOutlay = resp.transaction.offerSats + SINGLE_FEE_ESTIMATE + CHANGE_DUST_SATS

\* first-in-first-out sat flow: the sat at 0-based offset `offset` of the
\* concatenated inputs falls inside output j (1-based) of the PSBT
SatFallsInOutput(psbt, offset, j) ==
    /\ SumValues(SubSeq(psbt.outputs, 1, j - 1)) <= offset
    /\ offset < SumValues(SubSeq(psbt.outputs, 1, j))

\* C27: in a returned single-swap PSBT the first sat of the seller's
\* inscription input, at input offset equal to the sum of the operator's
\* selected inputs, falls inside an output that pays the operator: not inside
\* the seller-payment output and not past the last output into the miner fee.
C27_InscriptionSatToOperator ==
    SingleReturned =>
        \E j \in 1..Len(resp.psbt.outputs) :
            /\ SatFallsInOutput(resp.psbt,
                                FirstInputsSum(resp.psbt, resp.details.harvyInputCount), j)
            /\ resp.psbt.outputs[j].address = "harvy"

(***************************************************************************)
(* The selector on its own: every candidate list, target and fee estimate  *)
(* within the bounds.                                                      *)
(***************************************************************************)
SelCandidateLists ==
    UNION { { [i \in 1..n |-> [txid |-> i, vout |-> 0, value |-> vals[i]]] :
              vals \in [1..n -> 0..MaxSelValue] } : n \in 0..MaxSelLen }

SelInit ==
    /\ CalcIdle
    /\ LifeIdle
    /\ QueueIdle
    /\ BuildIdle
    /\ FinIdle
    /\ selArgs \in [utxos : SelCandidateLists,
                    targetSats : 0..MaxSelTarget,
                    feeEstimate : 0..MaxSelFee]
    /\ selResult = [ok |-> FALSE, error |-> "pending",
                    selected |-> <<>>, total |-> 0, change |-> 0]

SelCall ==
    /\ selResult.error = "pending"
    /\ selResult' = selectUTXOs(selArgs.utxos, selArgs.targetSats, selArgs.feeEstimate)
    /\ UNCHANGED selArgs
    /\ UNCHANGED <<calcVars, buildVars, finVars, lifeVars, queueVars>>

SelNext == SelCall

SpecSelect == SelInit /\ [][SelNext]_vars

(***************************************************************************)
(* Properties of the selector (specification SpecSelect).                  *)
(***************************************************************************)
\* sel is a sub-list of cands: its elements are distinct candidates
IsSubList(sel, cands) ==
    /\ \A i \in 1..Len(sel) : \E j \in 1..Len(cands) : cands[j] = sel[i]
    /\ \A i, j \in 1..Len(sel) : sel[i] = sel[j] => i = j

\* C6: when sum(utxos) >= target + fee, selectUTXOs returns a sub-list of the
\* candidates with total = sum(selected) >= target + fee and
\* change = total - target - fee >= 0; when sum(utxos) < target + fee it fails
\* with Insufficient funds and returns no selection.
C6_SelectorCorrect ==
    selResult.error \notin {"pending", "idle"} =>
        LET needed == selArgs.targetSats + selArgs.feeEstimate
            have == SumValues(selArgs.utxos)
        IN  /\ have >= needed =>
                  /\ selResult.ok
                  /\ IsSubList(selResult.selected, selArgs.utxos)
                  /\ selResult.total = SumValues(selResult.selected)
                  /\ selResult.total >= needed
                  /\ selResult.change = selResult.total - selArgs.targetSats - selArgs.feeEstimate
                  /\ selResult.change >= 0
            /\ have < needed =>
                  /\ ~selResult.ok
                  /\ selResult.error = "InsufficientFunds"
                  /\ selResult.selected = <<>>

C6_Witness ==
    /\ selResult.ok
    /\ Len(selResult.selected) >= 2
    /\ Len(selResult.selected) < Len(selArgs.utxos)
    /\ selArgs.feeEstimate > 0
    /\ selResult.change > 0

\* sorted is the candidate list cands in ascending order of value, candidates
\* of equal value in the order given (candidate i has txid i)
IsAscendingOrderOf(sorted, cands) ==
    /\ Len(sorted) = Len(cands)
    /\ \A j \in 1..Len(cands) : \E i \in 1..Len(sorted) : sorted[i] = cands[j]
    /\ \A i, j \in 1..Len(sorted) :
          i < j => \/ sorted[i].value < sorted[j].value
                   \/ sorted[i].value = sorted[j].value /\ sorted[i].txid < sorted[j].txid

\* the selection is the first Len(selected) candidates of the ascending order
SelectedIsPrefix ==
    \E sorted \in { SortAscending(selArgs.utxos) } :
        /\ IsAscendingOrderOf(sorted, selArgs.utxos)
        /\ Len(selResult.selected) <= Len(sorted)
        /\ selResult.selected = SubSeq(sorted, 1, Len(selResult.selected))

\* the sum of the selection without its last UTXO
SumWithoutLast == SumValues(SubSeq(selResult.selected, 1, Len(selResult.selected) - 1))

CalcSavings ==
    { t * 10000 + d : t \in {0} \cup { FeeTiers[i].max : i \in 1..4 },
                      d \in (0 - MaxCalcOffset) .. MaxCalcOffset }
    \cup { NaN }

\* btcPriceUSD values within the handlers' range 1 .. 10,000,000
CalcPrices == { 1, 50000, 100000, 333333, 333334, 10000000 }

CalcInit ==
    /\ SelIdle
    /\ LifeIdle
    /\ QueueIdle
    /\ BuildIdle
    /\ FinIdle
    /\ \/ \E a \in CalcSavings, b \in CalcSavings :
             calcArgs = [op |-> "fee", a |-> a, b |-> b, done |-> FALSE]
       \/ \E sats \in 0..MaxCalcSats, price \in CalcPrices :
             calcArgs = [op |-> "roundTrip", sats |-> sats, btcPriceUSD |-> price,
                         done |-> FALSE]
    /\ calcResult = [op |-> "none"]

\* calculateServiceFee applied to both values of a pair
CalcFees ==
    /\ calcArgs.op = "fee" /\ ~calcArgs.done
    /\ calcArgs' = [calcArgs EXCEPT !.done = TRUE]
    /\ calcResult' = [op |-> "fee",
                      fa |-> calculateServiceFee(calcArgs.a),
                      fb |-> calculateServiceFee(calcArgs.b)]
    /\ UNCHANGED <<selVars, buildVars, finVars, lifeVars, queueVars>>

\* usdToSats(satsToUSD(sats, btcPriceUSD), btcPriceUSD)
CalcRoundTrip ==
    /\ calcArgs.op = "roundTrip" /\ ~calcArgs.done
    /\ calcArgs' = [calcArgs EXCEPT !.done = TRUE]
    /\ calcResult' =
          LET usd == satsToUSD(calcArgs.sats, calcArgs.btcPriceUSD)
          IN  [op |-> "roundTrip", usdCents |-> usd,
               sats |-> usdToSats(usd, calcArgs.btcPriceUSD)]
    /\ UNCHANGED <<selVars, buildVars, finVars, lifeVars, queueVars>>

CalcNext == CalcFees \/ CalcRoundTrip

SpecCalc == CalcInit /\ [][CalcNext]_vars

(***************************************************************************)
(* Properties of the calculator (specification SpecCalc).                  *)
(***************************************************************************)
FeesDone == calcArgs.op = "fee" /\ calcArgs.done
RoundTripDone == calcArgs.op = "roundTrip" /\ calcArgs.done

\* C11: for all tax savings a < b, the fee percent of a is at most the fee
\* percent of b (default tier table).
C11_FeeMonotone ==
    (FeesDone /\ Lt(calcArgs.a, calcArgs.b) /\ ~IsNaN(calcArgs.b))
    => calcResult.fa.feePercent <= calcResult.fb.feePercent

C11_Witness ==
    /\ FeesDone
    /\ calcArgs.a = 100 * 10000
    /\ calcArgs.b = 100 * 10000 + 1
    /\ calcResult.fa.feePercent = 5
    /\ calcResult.fb.feePercent = 7

\* the 1-based index of the first tier whose max is >= x; 0 when there is none
FirstTierAtLeast(x) ==
    IF \E i \in 1..Len(FeeTiers) : FeeTiers[i].max = -1 \/ Leq(x, FeeTiers[i].max * 10000)
    THEN CHOOSE i \in 1..Len(FeeTiers) :
            /\ FeeTiers[i].max = -1 \/ Leq(x, FeeTiers[i].max * 10000)
            /\ \A j \in 1..(i - 1) : ~Leq(x, FeeTiers[j].max * 10000)
    ELSE 0

\* the result for x is that of tier number i of the default table
IsTierResult(x, r, i) ==
    /\ r.tier = i
    /\ r.feePercent = <<5, 7, 10, 12, 15>>[i]
    /\ r.feeCents = MulDivRound(x, r.feePercent, 10000)

\* C12 (as stated): calculateServiceFee returns the first tier whose threshold
\* is >= the input (<=100 -> 5%, <=500 -> 7%, <=2000 -> 10%, <=10000 -> 12%,
\* else 15%) with the fee that tier's percent of the input; an input on a
\* threshold takes the lower tier, an input <= 0 takes tier 1, and the return
\* after the loop is never reached: every input has such a tier.
C12_FirstTierNoFallback ==
    FeesDone =>
        /\ FirstTierAtLeast(calcArgs.a) # 0
        /\ IsTierResult(calcArgs.a, calcResult.fa, FirstTierAtLeast(calcArgs.a))

\* C13 (as stated): converting sats to USD and back gives the sats within 1.
C13_RoundTripWithinOneSat ==
    RoundTripDone =>
        /\ calcResult.sats - calcArgs.sats <= 1
        /\ calcArgs.sats - calcResult.sats <= 1

\* C13 (amended): converting sats to USD and back gives the sats within
\* 1/2 + 500000 / btcPrice: half a sat for the rounding to sats and half a
\* cent's worth of sats for the rounding of the USD amount to cents; this is
\* within 1 sat when btcPrice is at least 333,334 USD.
C13_RoundTripWithinHalfCent ==
    RoundTripDone =>
        LET p == calcArgs.btcPriceUSD
            diff == calcResult.sats - calcArgs.sats
            abs == IF diff < 0 THEN 0 - diff ELSE diff
        IN  /\ 2 * p * abs <= p + 1000000
            /\ p >= 333334 => abs <= 1
            /\ calcResult.usdCents = RoundDiv(calcArgs.sats * p, 1000000)

C13_Witness ==
    /\ RoundTripDone
    /\ calcArgs.btcPriceUSD = 100000
    /\ calcArgs.sats = 4
    /\ calcResult.usdCents = 0
    /\ calcResult.sats = 0


(***************************************************************************)
(* The lifecycle of two swaps served side by side.  A build is two steps,  *)
(* because the builder awaits between them: it reads the seller's UTXO list*)
(* (the inscription lookup), and later the operator's UTXO list, selects,  *)
(* assembles and signs.  Nothing is locked or reserved in between, so the  *)
(* steps of the two builds and the finalize requests interleave freely.    *)
(* The network accepts a transaction only if it is valid on the chain as   *)
(* it stands: every input unspent and signed by its owner.                 *)
(***************************************************************************)
Jobs == {1, 2}

\* an output still unspent on the chain
IsUnspent(u) == <<u.txid, u.vout>> \notin spent

\* what the UTXO Source lists for an address now
Unspent(address) == SelectSeq(utxoSet[address], IsUnspent)

\* the requests of the two swaps: single swaps and batches over the seller's
\* first two inscriptions
LifeRequests ==
    { [route |-> "single",
       body |-> [inscriptionId |-> id, sellerAddress |-> "seller",
                 sellerPaymentUTXOs |-> <<>>, purchasePriceSats |-> 1000,
                 currentPriceSats |-> 0, btcPriceUSD |-> 100000, userTaxRate |-> -1]] :
      id \in { <<101, 0>>, <<102, 0>> } }
    \cup
    { [route |-> "batch",
       body |-> [ordinals |-> << [inscriptionId |-> <<102, 0>>, purchasePriceSats |-> 1000,
                                  currentPriceSats |-> 0] >>,
                 sellerAddress |-> "seller", btcPriceUSD |-> 100000, userTaxRate |-> -1]] }

IdleJob == [phase |-> "idle", request |-> [route |-> "none"], seen |-> <<>>,
            psbt |-> EmptyPsbt, signed |-> FALSE]

\* the operator's wallets of the lifecycle: every build selects from the same
\* smallest outputs
LifeWallets ==
    { TwoUtxoWallet,
      TwoUtxoWallet \o << [txid |-> 3, vout |-> 0, value |-> 60000, owner |-> "harvy"] >> }

LifeInit ==
    /\ CalcIdle
    /\ QueueIdle
    /\ SelIdle
    /\ \E hw \in LifeWallets : utxoSet = UtxoSetOf(hw)
    /\ env = GoodEnv
    /\ req = NoReq
    /\ resp = Pending
    /\ held = EmptyPsbt
    /\ finReq = NoBody
    /\ finResp = NoFinResp
    /\ submitted = <<>>
    /\ spent = {}
    /\ jobs = [s \in Jobs |-> IdleJob]
    /\ finLog = <<>>

LifeFrame == UNCHANGED <<calcVars, selVars, env, req, resp, held, finReq, finResp, queueVars>>

\* a build request arrives and its handler gets as far as the inscription
\* lookup: the seller's UTXO list as the UTXO Source has it now
BuildLookup(s, request) ==
    /\ jobs[s].phase = "idle"
    /\ jobs' = [jobs EXCEPT ![s] = [IdleJob EXCEPT !.phase = "looked",
                                                    !.request = request,
                                                    !.seen = Unspent("seller")]]
    /\ UNCHANGED <<utxoSet, submitted, spent, finLog>>
    /\ LifeFrame

\* the world the rest of the build sees: the seller's list as the lookup read
\* it, the other lists as they are now
BuildWorld(s) ==
    [utxoSet |-> [a \in Addresses |->
                     IF a = "seller" THEN jobs[s].seen ELSE Unspent(a)],
     env |-> env, failAt |-> 0]

\* the handler's response for a request served in world w
BuildResponse(request, w) ==
    IF request.route = "single"
    THEN PostCreatePsbtOffer(request.body, w)
    ELSE PostCreateBatchPsbt(request.body, w)

\* the build runs to its response: wallet fetch, selection, assembly, signing
BuildFinish(s) ==
    /\ jobs[s].phase = "looked"
    /\ \E w \in { BuildWorld(s) } :
          \E r \in { BuildResponse(jobs[s].request, w) } :
             jobs' = [jobs EXCEPT ![s].phase = IF r.kind = "ok" THEN "built" ELSE "failed",
                                  ![s].psbt = r.psbt]
    /\ UNCHANGED <<utxoSet, submitted, spent, finLog>>
    /\ LifeFrame

\* the seller's wallet signs the seller's inputs of the PSBT it was handed
SellerSignsAll(s) ==
    /\ jobs[s].phase = "built"
    /\ ~jobs[s].signed
    /\ jobs' = [jobs EXCEPT ![s].signed = TRUE,
                            ![s].psbt.sigs =
                                [i \in 1..Len(@) |->
                                    IF jobs[s].psbt.inputs[i].owner = "seller" /\ @[i] = "none"
                                    THEN "seller" ELSE @[i]]]
    /\ UNCHANGED <<utxoSet, submitted, spent, finLog>>
    /\ LifeFrame

\* the outputs a transaction adds to the chain once the network has accepted it
NewOutputs(tx, n, address) ==
    SelectSeq([j \in 1..Len(tx.outputs) |->
                  [txid |-> 900 + n, vout |-> j - 1, value |-> tx.outputs[j].value,
                   owner |-> tx.outputs[j].address]],
              LAMBDA u : u.owner = address)

\* one POST /api/finalize-psbt with the job's PSBT, served to its response
LifeFinalize(s, nodeAccepts) ==
    /\ jobs[s].phase = "built"
    /\ Len(finLog) < MaxFinalizes
    /\ nodeAccepts => NodeValid(jobs[s].psbt, spent)
    /\ LET r == PostFinalizePsbt(toBase64(jobs[s].psbt), nodeAccepts, FALSE)
       IN  /\ finLog' = Append(finLog, [job |-> s, status |-> r.status, kind |-> r.kind,
                                        posted |-> r.posted])
           /\ submitted' = IF r.posted THEN Append(submitted, r.tx) ELSE submitted
           /\ spent' = IF r.kind = "ok"
                       THEN spent \cup { <<r.tx.inputs[j].txid, r.tx.inputs[j].vout>> :
                                         j \in 1..Len(r.tx.inputs) }
                       ELSE spent
           /\ utxoSet' = IF r.kind = "ok"
                         THEN [a \in Addresses |->
                                  utxoSet[a] \o NewOutputs(r.tx, Len(submitted), a)]
                         ELSE utxoSet
    /\ UNCHANGED jobs
    /\ LifeFrame

LifeNext ==
    \/ \E s \in Jobs, request \in LifeRequests : BuildLookup(s, request)
    \/ \E s \in Jobs : BuildFinish(s)
    \/ \E s \in Jobs : SellerSignsAll(s)
    \/ \E s \in Jobs, nodeAccepts \in BOOLEAN : LifeFinalize(s, nodeAccepts)

SpecLifecycle == LifeInit /\ [][LifeNext]_vars

\* the outpoints a job's PSBT spends from the operator's wallet
OperatorOutpoints(s) ==
    { <<jobs[s].psbt.inputs[i].txid, jobs[s].psbt.inputs[i].vout>> :
      i \in { j \in 1..Len(jobs[s].psbt.inputs) : jobs[s].psbt.inputs[j].owner = "harvy" } }

\* two builds whose selections overlap on the operator's UTXOs, both answered
\* with a PSBT
OverlappingBuilds(s, t) ==
    /\ s # t
    /\ jobs[s].phase = "built"
    /\ jobs[t].phase = "built"
    /\ OperatorOutpoints(s) \cap OperatorOutpoints(t) # {}

\* the finalize attempts of a job that were reported as broadcast
OkAttempts(s) == { n \in 1..Len(finLog) : finLog[n].job = s /\ finLog[n].kind = "ok" }

\* C19: of two builds that overlap on the operator's UTXOs at most one is ever
\* reported as broadcast, in whatever order their finalize requests are served;
\* a finalize attempt whose transaction was posted and refused is answered
\* with the error BroadcastRejected (status 500), never with a success, and a
\* success is answered only for a posted transaction.
C19_ConcurrentBuildsOneBroadcast ==
    /\ \A s, t \in Jobs :
          OverlappingBuilds(s, t) => (OkAttempts(s) = {} \/ OkAttempts(t) = {})
    /\ \A n \in 1..Len(finLog) :
          /\ (finLog[n].kind = "ok") <=> (finLog[n].status = 200)
          /\ finLog[n].kind = "ok" => finLog[n].posted
          /\ (finLog[n].posted /\ finLog[n].kind # "ok") =>
                 (finLog[n].kind = "BroadcastRejected" /\ finLog[n].status = 500)

\* both builds returned a PSBT signed by the operator over the same operator
\* UTXO, the first finalize was broadcast and the other was refused
C19_Witness ==
    /\ OverlappingBuilds(1, 2)
    /\ \A s \in Jobs : \E i \in 1..Len(jobs[s].psbt.sigs) : jobs[s].psbt.sigs[i] = "harvy"
    /\ Len(finLog) = 2
    /\ finLog[1].job = 1 /\ finLog[1].kind = "ok"
    /\ finLog[2].job = 2 /\ finLog[2].posted /\ finLog[2].kind = "BroadcastRejected"

\* C20: over any sequence of finalize requests the same PSBT is submitted to
\* the network at most once: after a finalize of a PSBT has been broadcast, a
\* later finalize of that PSBT posts nothing.
C20_SubmittedAtMostOnce ==
    \A m, n \in 1..Len(finLog) :
        (m < n /\ finLog[m].job = finLog[n].job /\ finLog[m].kind = "ok") => ~finLog[n].posted

(***************************************************************************)
(* The request queue of the front end (the shared apiQueue, and the queue  *)
(* local to the useOrdinalValue hook, which differ in MAX_CONCURRENT only).*)
(* JavaScript runs each callback to completion, so an enqueueRequest call, *)
(* the .finally callback of a settled request and a timer callback are one*)
(* step each.  Requests are numbered in the order they are enqueued.       *)
(***************************************************************************)
QueueState ==
    [requestQueue |-> requestQueue, activeRequests |-> activeRequests,
     inFlight |-> inFlight, timers |-> timers, startLog |-> startLog]

\* mutant: the number of requests in flight is not looked at
processQueue_NoLimit(q) ==
    IF q.requestQueue = <<>> THEN q
    ELSE LET nextRequest == Head(q.requestQueue)
         IN  [q EXCEPT !.requestQueue = Tail(@),
                       !.activeRequests = @ + 1,
                       !.inFlight = @ \cup {nextRequest},
                       !.startLog = Append(@, [id |-> nextRequest,
                                               timersPending |-> q.timers])]

\* mutant: the request enqueued last is taken (pop instead of shift)
processQueue_TakesNewest(q) ==
    IF q.activeRequests >= maxConcurrent \/ q.requestQueue = <<>> THEN q
    ELSE LET nextRequest == q.requestQueue[Len(q.requestQueue)]
         IN  [q EXCEPT !.requestQueue = SubSeq(@, 1, Len(@) - 1),
                       !.activeRequests = @ + 1,
                       !.inFlight = @ \cup {nextRequest},
                       !.startLog = Append(@, [id |-> nextRequest,
                                               timersPending |-> q.timers])]

\* processQueue(): return when the limit is reached or nothing waits;
\* otherwise shift one request, count it and start it
processQueue(q) ==
    IF q.activeRequests >= maxConcurrent \/ q.requestQueue = <<>> THEN q
    ELSE LET nextRequest == Head(q.requestQueue)
         IN  [q EXCEPT !.requestQueue = Tail(@),
                       !.activeRequests = @ + 1,
                       !.inFlight = @ \cup {nextRequest},
                       !.startLog = Append(@, [id |-> nextRequest,
                                               timersPending |-> q.timers])]

\* the queue's variables take the values of q
QueueBecomes(q) ==
    /\ requestQueue' = q.requestQueue
    /\ activeRequests' = q.activeRequests
    /\ inFlight' = q.inFlight
    /\ timers' = q.timers
    /\ startLog' = q.startLog

QueueFrame == UNCHANGED <<calcVars, selVars, buildVars, finVars, lifeVars>>

QueueInit ==
    /\ CalcIdle
    /\ SelIdle
    /\ BuildIdle
    /\ FinIdle
    /\ LifeIdle
    /\ maxConcurrent \in {MAX_CONCURRENT_SHARED, MAX_CONCURRENT_HOOK}
    /\ requestQueue = <<>>
    /\ activeRequests = 0
    /\ inFlight = {}
    /\ timers = 0
    /\ enqueued = 0
    /\ startLog = <<>>

\* enqueueRequest(requestFn): requestQueue.push(requestFn); processQueue()
enqueueRequest ==
    /\ enqueued < MaxRequests
    /\ enqueued' = enqueued + 1
    /\ \E q \in { [QueueState EXCEPT !.requestQueue = Append(@, enqueued + 1)] } :
          QueueBecomes(processQueue(q))
    /\ UNCHANGED maxConcurrent
    /\ QueueFrame

\* request r settles and its .finally callback runs:
\* activeRequests--; setTimeout(processQueue, DELAY_BETWEEN_REQUESTS)
RequestSettles(r) ==
    /\ r \in inFlight
    /\ inFlight' = inFlight \ {r}
    /\ activeRequests' = activeRequests - 1
    /\ timers' = timers + 1
    /\ UNCHANGED <<maxConcurrent, requestQueue, enqueued, startLog>>
    /\ QueueFrame

\* a delay timer fires: its callback is processQueue
TimerFires ==
    /\ timers > 0
    /\ \E q \in { [QueueState EXCEPT !.timers = @ - 1] } :
          QueueBecomes(processQueue(q))
    /\ UNCHANGED <<maxConcurrent, enqueued>>
    /\ QueueFrame

QueueNext ==
    \/ enqueueRequest
    \/ \E r \in 1..MaxRequests : RequestSettles(r)
    \/ TimerFires

SpecQueue == QueueInit /\ [][QueueNext]_vars

\* every started request settles in the end and every timer fires
SpecQueueFair ==
    /\ SpecQueue
    /\ WF_vars(TimerFires)
    /\ \A r \in 1..MaxRequests : WF_vars(RequestSettles(r))

(***************************************************************************)
(* Properties of the request queue.                                        *)
(***************************************************************************)
\* C28: the count of requests in flight is never negative and never above
\* MAX_CONCURRENT (1 in the shared queue, 3 in the hook-local one), and it is
\* the number of requests that were started and have not settled.
C28_ConcurrencyBound ==
    /\ activeRequests >= 0
    /\ activeRequests <= maxConcurrent
    /\ activeRequests = Cardinality(inFlight)

\* the hook-local queue at its limit of three, a fourth request waiting
C28_Witness ==
    /\ maxConcurrent = MAX_CONCURRENT_HOOK
    /\ activeRequests = MAX_CONCURRENT_HOOK
    /\ inFlight = {1, 2, 3}
    /\ requestQueue = <<4>>

\* the requests started so far are the first ones enqueued, in that order
StartedInOrder == \A n \in 1..Len(startLog) : startLog[n].id = n

\* a request waits while none is in flight and no timer is pending
Stalled == requestQueue # <<>> /\ activeRequests = 0 /\ timers = 0

Started(r) == \E n \in 1..Len(startLog) : startLog[n].id = r

\* C29: requests are started in the order they were enqueued, the queue never
\* stalls (a waiting request with no request in flight and no timer pending),
\* and, started requests settling and timers firing, every enqueued request
\* is started in the end.
C29_QueueLivenessAndOrder ==
    /\ [](StartedInOrder /\ ~Stalled)
    /\ \A r \in 1..MaxRequests : (enqueued >= r) ~> Started(r)

\* the shared queue has started three requests one after the other
C29_Witness ==
    /\ maxConcurrent = MAX_CONCURRENT_SHARED
    /\ enqueued = 3
    /\ Len(startLog) = 3
    /\ startLog[3].id = 3
    /\ requestQueue = <<>>
    /\ inFlight = {3}

\* C30: no request is started while a delay timer set by a completion is
\* still pending.
C30_Spacing ==
    \A n \in 1..Len(startLog) : startLog[n].timersPending = 0

=============================================================================
